---- MODULE Spec2Model ----
(***************************************************************************)
(* A model of asgn (braxtoncuneo/asgn): the ruleset runner of              *)
(* src/asgn_spec.rs, the student submit and grace commands of              *)
(* src/act/student.rs and the course context of src/context.rs.            *)
(*                                                                         *)
(* Option<T> is modelled as a sequence of length at most one:              *)
(* None is <<>> and Some(v) is <<v>>.                                      *)
(***************************************************************************)
EXTENDS Integers, Sequences, FiniteSets, TLC

VARIABLES
    ruleset,      \* the Option<&Ruleset> handed to the runner
    rr,           \* what the last call of the runner returned and printed
    user,         \* Context.user: who runs the command
    now,          \* the clock the command reads (Local::now()), in seconds
    course,       \* the members of course.toml: graders and students
    catalog,      \* Context.catalog: assignment name -> AsgnSpec
    cwd,          \* Context.cwd, the user's working directory: file -> kind
    slots,        \* the submission tree: <<assignment, user>> -> slot files
    grace_total,  \* Context.grace_total : Option<i64>
    grace_limit,  \* Context.grace_limit : Option<i64>
    score_toml,   \* .info/score.toml of each assignment: Option<StatBlockSet>
    info_toml,    \* .info/info.toml of each assignment directory
    last          \* the outcome of the last command

vars == <<ruleset, rr, user, now, course, catalog, cwd, slots, grace_total, grace_limit, score_toml,
          info_toml, last>>

----------------------------------------------------------------------------
(* Bounds of the model.                                                    *)

MaxRules == 2        \* longest rule list of a Ruleset given to the runner
MaxStageRules == 1   \* longest rule list of a build/check/score stage
MaxTime == 2         \* the clock and the dates of submit range over days 0..MaxTime
MaxGrace == 4        \* requested grace amounts range over -1..MaxGrace
MaxPrior == 2        \* grace already recorded ranges over -1..MaxPrior
MaxMTime == 2        \* modification times of slot files range over -1..MaxMTime
MaxDays == 1         \* the timestamps given to versus span days 0..MaxDays
LastDay == 3         \* the calendar of offset_date has the days 0..LastDay
MaxBump == 2         \* recorded extensions range over -MaxBump..MaxBump days
MaxSkew == 2         \* recorded stat block times lie within MaxSkew seconds of the submission

----------------------------------------------------------------------------
(* Option<T>                                                               *)

None == <<>>

Some(v) == <<v>>

is_some(o) == o # <<>>

unwrap_or(o, d) == IF o = <<>> THEN d ELSE o[1]

get_or_insert(o, d) == IF o = <<>> THEN <<d>> ELSE o

OptBool == {None, Some(TRUE), Some(FALSE)}

----------------------------------------------------------------------------
(* Rules and Rulesets (src/asgn_spec.rs).                                  *)

Targets == {"lint", "compile"}

\* struct Rule: the fields that decide control flow
Rule == [target : Targets, fail_okay : OptBool]

\* What the make command of one rule can do: exit 0, exit non-zero, or not
\* be started at all (util::run_at returns Err).
ExitStatus == {"success", "failure", "noexec"}

RECURSIVE SeqsUpTo(_, _)
SeqsUpTo(S, n) ==
    IF n = 0 THEN {<<>>}
    ELSE LET shorter == SeqsUpTo(S, n - 1)
         IN shorter \cup {Append(s, x) : s \in {t \in shorter : Len(t) = n - 1}, x \in S}

\* The target of the i-th rule of a generated rule list
TargetAt(i) == IF i % 2 = 1 THEN "lint" ELSE "compile"

\* Rule lists of at most n rules, one per sequence of fail_okay settings
RuleLists(n) ==
    {[i \in 1..Len(fs) |-> [target |-> TargetAt(i), fail_okay |-> fs[i]]] :
        fs \in SeqsUpTo(OptBool, n)}

\* struct Ruleset
Ruleset == [on_grade : OptBool, on_submit : OptBool, fail_okay : OptBool,
            rules : RuleLists(MaxRules)]

OptRuleset == {None} \cup {Some(r) : r \in Ruleset}

\* run_ruleset, line 392: the rule's fail_okay, defaulted from the Ruleset
effective_fail_okay_ruleset_first(rule, set) ==
    IF is_some(set.fail_okay) THEN set.fail_okay
    ELSE get_or_insert(rule.fail_okay, FALSE)

effective_fail_okay(rule, set) ==
    get_or_insert(rule.fail_okay, unwrap_or(set.fail_okay, FALSE))

\* run_rule: Ok(true), Ok(false) or Err(()) from the exit status of make
run_rule(rule, status) ==
    IF status = "noexec" THEN "Err"                     \* run_at(..).map_err(drop)?
    ELSE IF status = "success" THEN "Ok(true)"
    ELSE IF ~ unwrap_or(rule.fail_okay, FALSE) THEN "Err"
    ELSE "Ok(false)"

\* usize subtraction; -1 stands for the underflow
usize_sub(a, b) == IF a >= b THEN a - b ELSE -1

\* The loop variables of run_ruleset before its first rule
loop_start ==
    [i |-> 1, passed |-> 0, failed |-> 0, fatal |-> FALSE,
     executed |-> <<>>, outcomes |-> <<>>, scores |-> [t \in Targets |-> None]]

\* The match on run_rule's result, lines 396-410, for rule number acc.i
rule_step_uncounted_fail(acc, res) ==
    [i        |-> acc.i + 1,
     passed   |-> IF res = "Ok(true)" THEN acc.passed + 1 ELSE acc.passed,
     failed   |-> IF res = "Err" THEN acc.failed + 1 ELSE acc.failed,
     fatal    |-> res = "Err",
     executed |-> Append(acc.executed, acc.i),
     outcomes |-> Append(acc.outcomes, res),
     scores   |-> acc.scores]

rule_step_uncounted_fatal(acc, res) ==
    [i        |-> acc.i + 1,
     passed   |-> IF res = "Ok(true)" THEN acc.passed + 1 ELSE acc.passed,
     failed   |-> IF res = "Ok(false)" THEN acc.failed + 1 ELSE acc.failed,
     fatal    |-> res = "Err",
     executed |-> Append(acc.executed, acc.i),
     outcomes |-> Append(acc.outcomes, res),
     scores   |-> acc.scores]

rule_step(acc, res) ==
    [i        |-> acc.i + 1,
     passed   |-> IF res = "Ok(true)" THEN acc.passed + 1 ELSE acc.passed,
     failed   |-> IF res = "Ok(true)" THEN acc.failed ELSE acc.failed + 1,
     fatal    |-> res = "Err",
     executed |-> Append(acc.executed, acc.i),
     outcomes |-> Append(acc.outcomes, res),
     scores   |-> acc.scores]

\* The for loop goes on while rules are left and no arm has hit break
loop_continues_past_fatal(acc, count) == acc.i <= count

loop_continues(acc, count) == acc.i <= count /\ ~ acc.fatal

\* What the text of a metric file parses to: parse::<bool>, parse::<i64> and
\* parse::<f64> accept no surrounding white space
MetricTexts == {"abc", "7", "true"}

parse(kind, text) ==
    IF kind = "bool" /\ text \in {"true", "false"} THEN Some([type |-> "Boolean", text |-> text])
    ELSE IF kind = "int" /\ text \in {"7"} THEN Some([type |-> "Integer", text |-> text])
    ELSE IF kind = "float" /\ text \in {"7"} THEN Some([type |-> "Float", text |-> text])
    ELSE None

\* AsgnSpec::log_metric: the scores table after it
log_metric(scores, target, result, kind) ==
    IF kind \notin {"bool", "int", "float"} THEN scores
    ELSE IF parse(kind, result) # None
    THEN [scores EXCEPT ![target] = parse(kind, result)]
    ELSE scores

\* The metric block of run_ruleset, lines 412-422, for a rule that passed;
\* output is the text of the file named after the target, None if the file
\* cannot be read
metric_step_strict(acc, rule, output) ==
    IF output = None \/ rule.kind = None
    THEN [acc EXCEPT !.fatal = TRUE]
    ELSE IF parse(rule.kind[1], output[1]) = None
    THEN [acc EXCEPT !.fatal = TRUE]
    ELSE [acc EXCEPT !.scores = log_metric(@, rule.target, output[1], rule.kind[1])]

metric_step(acc, rule, output) ==
    IF output = None THEN acc
    ELSE IF rule.kind = None THEN acc
    ELSE [acc EXCEPT !.scores = log_metric(@, rule.target, output[1], rule.kind[1])]

RECURSIVE run_loop(_, _, _, _, _)
run_loop(set, statuses, outputs, is_metric, acc) ==
    IF ~ loop_continues(acc, Len(set.rules)) THEN acc
    ELSE LET rule == [set.rules[acc.i] EXCEPT
                         !.fail_okay = effective_fail_okay(set.rules[acc.i], set)]
             res  == run_rule(rule, statuses[acc.i])
             next == rule_step(acc, res)
         IN run_loop(set, statuses, outputs, is_metric,
                     IF res = "Ok(true)" /\ is_metric
                     THEN metric_step(next, rule, outputs[acc.i])
                     ELSE next)

\* run_ruleset: the Result it returns, the summary line it prints and the
\* rules it ran. statuses[i] is what make does for rule i if it is run and
\* outputs[i] what the file of its target then holds.
run_ruleset(optset, statuses, outputs, is_metric) ==
    IF optset = None
    THEN [ok |-> TRUE, summary |-> None, executed |-> <<>>, outcomes |-> <<>>,
          scores |-> [t \in Targets |-> None]]
    ELSE LET set   == optset[1]
             count == Len(set.rules)
             acc   == run_loop(set, statuses, outputs, is_metric, loop_start)
         IN [ok       |-> ~ acc.fatal,
             scores   |-> acc.scores,
             summary  |-> Some([count |-> count, passed |-> acc.passed,
                                failed |-> acc.failed,
                                not_reached |->
                                    usize_sub(usize_sub(count, acc.passed), acc.failed)]),
             executed |-> acc.executed,
             outcomes |-> acc.outcomes]

\* run_on_submit: None when gated off, Some(result) otherwise; every caller
\* passes is_metric = false
run_on_submit_reads_on_grade(optset, statuses) ==
    IF optset # None /\ unwrap_or(optset[1].on_grade, TRUE)
    THEN Some(run_ruleset(optset, statuses, <<>>, FALSE))
    ELSE None

run_on_submit(optset, statuses) ==
    IF optset # None /\ unwrap_or(optset[1].on_submit, TRUE)
    THEN Some(run_ruleset(optset, statuses, <<>>, FALSE))
    ELSE None

\* run_on_grade: None when gated off, Some(result) otherwise
run_on_grade(optset, statuses) ==
    IF optset # None /\ unwrap_or(optset[1].on_grade, TRUE)
    THEN Some(run_ruleset(optset, statuses, <<>>, FALSE))
    ELSE None

NumRules(optset) == IF optset = None THEN 0 ELSE Len(optset[1].rules)

Statuses(n) == [1..n -> ExitStatus]

----------------------------------------------------------------------------
(* The course context (src/context.rs).                                    *)

\* The owner of the course directory
Instructor == "prof"

Users == {"prof", "ta", "stu", "guest"}

NoMembers == [graders |-> <<>>, students |-> <<>>]

\* no assignment has a score.toml
NoScores == <<>>

\* the info.toml files are not looked at
NoInfo == <<>>

OneGraderOneStudent == [graders |-> <<"ta">>, students |-> <<"stu">>]

InSeq(x, seq) == \E i \in 1..Len(seq) : seq[i] = x

\* Context::deduce: the role of the user running the command
role(c, u) ==
    IF u = Instructor THEN "Instructor"
    ELSE IF InSeq(u, c.graders) THEN "Grader"
    ELSE IF InSeq(u, c.students) THEN "Student"
    ELSE "Other"

\* Context.members: the instructor, then the graders, then the students
members(c) == <<Instructor>> \o c.graders \o c.students

\* Days::new(1) of before_open, in seconds: a DateTime<Local> is the number
\* of seconds since the epoch
OneDay == 86400

Times == {d * OneDay : d \in 0..MaxTime}

OptTime == {None} \cup {Some(t) : t \in Times}

\* AsgnSpec::before_open
before_open(spec, t) ==
    IF spec.open_date = None THEN FALSE
    ELSE (t + OneDay) - spec.open_date[1] < 0

\* AsgnSpec::after_close
after_close(spec, t) ==
    IF spec.close_date = None THEN FALSE
    ELSE t - spec.close_date[1] > 0

\* StudentAct::verify_active: "Ok" or the FailInfo it returns
verify_active(spec, r, t) ==
    LET is_instructor == r # "Instructor"
    IN IF ~ spec.active THEN "Inactive"
       ELSE IF ~ is_instructor /\ before_open(spec, t) THEN "BeforeOpen"
       ELSE IF ~ is_instructor /\ after_close(spec, t) THEN "AfterClose"
       ELSE "Ok"

----------------------------------------------------------------------------
(* StudentAct::submit (src/act/student.rs).                                *)

\* AsgnSpec.file_list of the modelled assignment
FileList == <<"main.cpp", "util.h">>

Files == {FileList[i] : i \in 1..Len(FileList)}

\* What a path of the working directory can be
PathKinds == {"missing", "dir", "other", "file"}

\* An I/O failure of the copy loop: fs::copy or set_mode fails at file `at`
IoFaults ==
    {[at |-> 0, what |-> "none"]} \cup
    [at : 1..Len(FileList), what : {"copy", "chmod"}]

\* A submission slot with nothing in it: files holds the modification time
\* of each required path that exists, dirs the required paths that exist but
\* are directories, grace the value of .grace, extension the .extension path
EmptySlot == [files |-> [f \in Files |-> None], dirs |-> {}, grace |-> None,
              extension |-> None]

\* The copy loop of submit, lines 315-336, from file k on. acc.files are the
\* slot's files, acc.log the FailLog, acc.err whether `?` has returned.
RECURSIVE copy_files(_, _, _, _, _)
copy_files(file_list, k, t, io, acc) ==
    IF k > Len(file_list) \/ acc.err THEN acc
    ELSE LET f == file_list[k]
             kind == cwd[f]
         IN IF kind = "missing"
            THEN copy_files(file_list, k + 1, t, io,
                            [acc EXCEPT !.log = Append(@, "MissingFile")])
            ELSE IF kind = "dir"
            THEN copy_files(file_list, k + 1, t, io,
                            [acc EXCEPT !.log = Append(@, "FileIsDir")])
            ELSE IF kind # "file"
            THEN copy_files(file_list, k + 1, t, io,
                            [acc EXCEPT !.log = Append(@, "FileIsOther")])
            ELSE IF io.at = k /\ io.what = "copy"
            THEN [acc EXCEPT !.err = TRUE]
            ELSE IF io.at = k /\ io.what = "chmod"
            THEN [acc EXCEPT !.files[f] = Some(t), !.err = TRUE]
            ELSE copy_files(file_list, k + 1, t, io,
                            [acc EXCEPT !.files[f] = Some(t)])

\* One stage of the pipeline ended it: build_result.map(|r| r.is_err()).unwrap_or(false)
stage_stops_never(ret) == FALSE

stage_stops(ret) == IF ret = None THEN FALSE ELSE ~ ret[1].ok

\* The three run_on_submit calls of submit, lines 342-355: the calls made, in
\* order, each with what it returned
pipeline(spec, st) ==
    LET build == run_on_submit(spec.build, st.build)
        check == run_on_submit(spec.check, st.check)
        score == run_on_submit(spec.score, st.score)
    IN IF stage_stops(build) THEN <<[title |-> "Building", ret |-> build]>>
       ELSE IF stage_stops(check)
       THEN <<[title |-> "Building", ret |-> build],
              [title |-> "Evaluating Checks", ret |-> check]>>
       ELSE <<[title |-> "Building", ret |-> build],
              [title |-> "Evaluating Checks", ret |-> check],
              [title |-> "Evaluating Scores", ret |-> score]>>

Failed(cmd, asgn, log) ==
    [cmd |-> cmd, asgn |-> asgn, ok |-> FALSE, log |-> log, stages |-> <<>>]

\* StudentAct::submit: the command's result and the slot files it leaves
submit(asgn_name, st, io) ==
    IF asgn_name \notin DOMAIN catalog
    THEN [last |-> Failed("submit", asgn_name, <<"InvalidAsgn">>), slots |-> slots]
    ELSE LET spec  == catalog[asgn_name]
             gate  == verify_active(spec, role(course, user), now)
             key   == <<asgn_name, user>>
             copy  == copy_files(spec.file_list, 1, now, io,
                                 [files |-> slots[key].files, log |-> <<>>, err |-> FALSE])
             after == [slots EXCEPT ![key].files = copy.files]
         IN IF gate # "Ok"
            THEN [last |-> Failed("submit", asgn_name, <<gate>>), slots |-> slots]
            ELSE IF copy.err
            THEN [last |-> Failed("submit", asgn_name, <<"IOFail">>), slots |-> after]
            ELSE IF copy.log # <<>>
            THEN [last |-> Failed("submit", asgn_name, copy.log), slots |-> after]
            ELSE [last |-> [cmd |-> "submit", asgn |-> asgn_name, ok |-> TRUE,
                            log |-> <<>>, stages |-> pipeline(spec, st)],
                  slots |-> after]

NotRun == [op |-> "none", statuses |-> <<>>, ret |-> None]

NoCommand == [cmd |-> "none", asgn |-> "", ok |-> TRUE, log |-> <<>>, stages |-> <<>>]

StageStatuses(spec) ==
    [build : Statuses(NumRules(spec.build)),
     check : Statuses(NumRules(spec.check)),
     score : Statuses(NumRules(spec.score))]

\* The statuses handed to an assignment name that may not be in the catalog
StatusesFor(asgn_name) ==
    IF asgn_name \in DOMAIN catalog THEN StageStatuses(catalog[asgn_name])
    ELSE {[build |-> <<>>, check |-> <<>>, score |-> <<>>]}

AsgnNames == {"hw1", "nope"}

Submit ==
    /\ last = NoCommand
    /\ \E asgn_name \in AsgnNames, io \in IoFaults :
       \E st \in StatusesFor(asgn_name) :
           LET out == submit(asgn_name, st, io)
           IN /\ last' = out.last
              /\ slots' = out.slots
    /\ UNCHANGED <<ruleset, rr, user, now, course, catalog, cwd, grace_total, grace_limit, score_toml, info_toml>>

\* The rulesets a stage of an assignment is given: absent, or gated by
\* on_submit, with up to MaxStageRules rules that tolerate no failure
StageRuleLists ==
    {rs \in RuleLists(MaxStageRules) : \A i \in 1..Len(rs) : rs[i].fail_okay = None}

StageRulesets ==
    {None} \cup
    {Some([on_grade |-> None, on_submit |-> g, fail_okay |-> None, rules |-> rs]) :
        g \in OptBool, rs \in StageRuleLists}

\* An AsgnSpec as loaded from info.toml
AsgnSpec(name, active, open, close, build, check, score) ==
    [name |-> name, active |-> active, visible |-> TRUE, due_date |-> None,
     open_date |-> open, close_date |-> close,
     file_list |-> FileList, build |-> build, check |-> check, score |-> score]

OneRule == Some([on_grade |-> None, on_submit |-> None, fail_okay |-> None,
                 rules |-> <<[target |-> "lint", fail_okay |-> None]>>])

EmptySlots(names) == [k \in names \X Users |-> EmptySlot]

\* An open assignment with any three stages, submitted by a student with
\* every required file in the working directory
InitPipeline ==
    /\ user = "stu"
    /\ now = 0
    /\ cwd = [f \in Files |-> "file"]
    /\ \E b \in StageRulesets, c \in StageRulesets, s \in StageRulesets :
           catalog = [n \in {"hw1"} |-> AsgnSpec(n, TRUE, None, None, b, c, s)]

\* An assignment with one build rule, any dates and any activity, and any
\* user, clock and working directory
InitVerify ==
    /\ user \in Users
    /\ now \in Times
    /\ cwd \in [Files -> PathKinds]
    /\ \E a \in BOOLEAN, o \in OptTime, c \in OptTime :
           catalog = [n \in {"hw1"} |-> AsgnSpec(n, a, o, c, OneRule, None, None)]

InitSubmit ==
    /\ ruleset = None
    /\ rr = NotRun
    /\ course = OneGraderOneStudent
    /\ slots = EmptySlots({"hw1"})
    /\ grace_total = None
    /\ grace_limit = None
    /\ score_toml = NoScores
    /\ last = NoCommand
    /\ (InitPipeline \/ InitVerify)
    /\ info_toml = NoInfo

NextSubmit == Submit

SpecSubmit == InitSubmit /\ [][NextSubmit]_vars

\* A student who submits an enabled assignment again: the slot holds what
\* earlier submits left, the working directory holds anything
InitResubmit ==
    /\ ruleset = None
    /\ rr = NotRun
    /\ user = "stu"
    /\ now = MaxMTime + 1
    /\ course = OneGraderOneStudent
    /\ catalog = [n \in {"hw1"} |-> AsgnSpec(n, TRUE, None, None, OneRule, None, None)]
    /\ cwd \in [Files -> PathKinds]
    /\ \E held \in [Files -> {None} \cup {Some(t) : t \in 0..MaxMTime}] :
           slots = [EmptySlots({"hw1"}) EXCEPT ![<<"hw1", "stu">>].files = held]
    /\ grace_total = None
    /\ grace_limit = None
    /\ score_toml = NoScores
    /\ info_toml = NoInfo
    /\ last = NoCommand

NextResubmit == Submit

SpecResubmit == InitResubmit /\ [][NextResubmit]_vars

----------------------------------------------------------------------------
(* StudentAct::grace (src/act/student.rs) and Context::grace_spent.        *)

\* SubmissionSlot::get_grace: the value of .grace, 0 when there is no file
get_grace(slot) == unwrap_or(slot.grace, 0)

RECURSIVE SumOver(_, _)
SumOver(S, f) ==
    IF S = {} THEN 0
    ELSE LET x == CHOOSE y \in S : TRUE IN f[x] + SumOver(S \ {x}, f)

\* Context.manifest: the assignments of the course in their order
manifest == SelectSeq(<<"hw1", "hw2">>, LAMBDA n : n \in DOMAIN catalog)

\* The number of bits of an i64 of the model
IntBits == 5

MinInt == 0 - 2^(IntBits - 1)

MaxInt == 2^(IntBits - 1) - 1

fits(x) == MinInt <= x /\ x <= MaxInt

\* What i64 arithmetic gives for the exact result x when the build does not
\* check for overflow: x modulo 2^IntBits, in two's complement
wrapping(x) == ((x - MinInt) % 2^IntBits) + MinInt

\* One i64 addition acc + x of a chain: the wrapped sum, and whether this
\* addition or an earlier one of the chain overflowed
checked(acc, x) ==
    [val |-> wrapping(acc.val + x), over |-> acc.over \/ ~ fits(acc.val + x)]

RECURSIVE spent_fold(_, _)
spent_fold(k, acc) ==
    IF k > Len(manifest) THEN acc
    ELSE spent_fold(k + 1, checked(acc, get_grace(slots[<<manifest[k], user>>])))

\* Context::grace_spent: grace_days of status() of the slots
\* base_path/asgn/self.user, folded with + in the order of the manifest; the
\* slots hold no .extension file, so status() returns Ok
grace_spent == spent_fold(1, [val |-> 0, over |-> FALSE])

\* StudentAct::grace up to its last line: "Ok" or the FailInfo returned, with
\* the two figures of the budget check once they have been read. An i64
\* overflow in grace_spent() - current_grace + ext_days panics in a build
\* with overflow checks and wraps in a build without them
grace(asgn, target, ext_days, overflow_checks) ==
    IF grace_total = None
    THEN [res |-> "NoGrace", figures |-> None]
    ELSE IF grace_limit # None /\ grace_limit[1] < ext_days
    THEN [res |-> "GraceLimit", figures |-> None]
    ELSE IF asgn \notin DOMAIN catalog
    THEN [res |-> "InvalidAsgn", figures |-> None]
    ELSE IF verify_active(catalog[asgn], role(course, user), now) # "Ok"
    THEN [res |-> verify_active(catalog[asgn], role(course, user), now), figures |-> None]
    ELSE LET current_grace == get_grace(slots[<<asgn, target>>])
             spent         == grace_spent
             needed        == checked(checked(spent, 0 - current_grace), ext_days)
             figures       == Some([spent |-> spent.val, current |-> current_grace])
         IN IF needed.over /\ overflow_checks
            THEN [res |-> "panic", figures |-> None]
            ELSE IF grace_total[1] < needed.val
            THEN [res |-> "NotEnoughGrace", figures |-> figures]
            ELSE [res |-> "Ok", figures |-> figures]

\* SubmissionSlot::set_grace, reached on the last line of grace only;
\* fs::write is taken to succeed
set_grace_unchecked(res, asgn, target, ext_days) ==
    IF res \in {"Ok", "NotEnoughGrace"}
    THEN [slots EXCEPT ![<<asgn, target>>].grace = Some(ext_days)]
    ELSE slots

set_grace_if_ok(res, asgn, target, ext_days) ==
    IF res = "Ok"
    THEN [slots EXCEPT ![<<asgn, target>>].grace = Some(ext_days)]
    ELSE slots

\* What a grace command leaves in last
GraceDone(cmd, asgn, target, ext_days, out) ==
    [cmd |-> cmd, asgn |-> asgn, ok |-> out.res = "Ok",
     log |-> IF out.res = "Ok" THEN <<>> ELSE <<out.res>>, stages |-> <<>>,
     target |-> target, amount |-> ext_days, figures |-> out.figures,
     before |-> slots]

Amounts == (-1)..MaxGrace

\* StudentAct::Grace for an amount of a set: a user asks for grace on their
\* own submission
GraceOf(amounts) ==
    /\ \E asgn \in DOMAIN catalog \cup {"nope"}, ext \in amounts :
       \E overflow_checks \in BOOLEAN :
           LET out == grace(asgn, user, ext, overflow_checks)
           IN /\ last' = GraceDone("grace", asgn, user, ext, out)
              /\ slots' = set_grace_if_ok(out.res, asgn, user, ext)
    /\ UNCHANGED <<ruleset, rr, user, now, course, catalog, cwd, grace_total, grace_limit, score_toml, info_toml>>

Grace ==
    /\ last = NoCommand
    /\ GraceOf(Amounts)

\* InstructorAct::SetGrace: the instructor sets the grace of any member
SetGrace ==
    /\ last = NoCommand
    /\ role(course, user) = "Instructor"
    /\ \E asgn \in DOMAIN catalog \cup {"nope"}, ext \in Amounts :
       \E target \in {members(course)[i] : i \in 1..Len(members(course))},
          overflow_checks \in BOOLEAN :
           LET out == grace(asgn, target, ext, overflow_checks)
           IN /\ last' = GraceDone("set_grace", asgn, target, ext, out)
              /\ slots' = set_grace_if_ok(out.res, asgn, target, ext)
    /\ UNCHANGED <<ruleset, rr, user, now, course, catalog, cwd, grace_total, grace_limit, score_toml, info_toml>>

OneStudent == [graders |-> <<>>, students |-> <<"stu">>]

PriorGrace == {None} \cup {Some(g) : g \in (-1)..MaxPrior}

GraceTotals == {None} \cup {Some(t) : t \in 0..(MaxGrace + 1)}

GraceLimits == {None} \cup {Some(l) : l \in {1, MaxGrace + 1}}

\* A course of two assignments, hw1 enabled and hw2 disabled, whose members
\* have recorded grace before
InitGrace ==
    /\ ruleset = None
    /\ rr = NotRun
    /\ user \in {"prof", "stu"}
    /\ now = 0
    /\ course = OneStudent
    /\ catalog = [n \in {"hw1", "hw2"} |->
                     AsgnSpec(n, n = "hw1", None, None, None, None, None)]
    /\ cwd = [f \in Files |-> "missing"]
    /\ \E g1 \in PriorGrace, g2 \in PriorGrace, g3 \in PriorGrace :
           slots = [k \in {"hw1", "hw2"} \X Users |->
                      [EmptySlot EXCEPT !.grace =
                          IF k = <<"hw1", "stu">> THEN g1
                          ELSE IF k = <<"hw2", "stu">> THEN g2
                          ELSE IF k = <<"hw2", "prof">> THEN g3
                          ELSE None]]
    /\ grace_total \in GraceTotals
    /\ grace_limit \in GraceLimits
    /\ score_toml = NoScores
    /\ last = NoCommand
    /\ info_toml = NoInfo

NextGrace == Grace \/ SetGrace

SpecGrace == InitGrace /\ [][NextGrace]_vars

\* The amounts of a run of requests: the small ones and the two ends of i64
Requests == Amounts \cup {MinInt, MaxInt}

\* One more request of a student who has made requests before
GraceAgain == GraceOf(Requests)

\* A student of a course whose two assignments are enabled; the grace
\* recorded so far is not negative and within grace_total
InitBudget ==
    /\ ruleset = None
    /\ rr = NotRun
    /\ user = "stu"
    /\ now = 0
    /\ course = OneStudent
    /\ catalog = [n \in {"hw1", "hw2"} |->
                     AsgnSpec(n, TRUE, None, None, None, None, None)]
    /\ cwd = [f \in Files |-> "missing"]
    /\ grace_total \in {Some(t) : t \in 0..MaxGrace}
    /\ grace_limit \in GraceLimits
    /\ \E g1 \in PriorGrace \ {Some(-1)}, g2 \in PriorGrace \ {Some(-1)} :
           /\ unwrap_or(g1, 0) + unwrap_or(g2, 0) <= grace_total[1]
           /\ slots = [k \in {"hw1", "hw2"} \X Users |->
                         [EmptySlot EXCEPT !.grace =
                             IF k = <<"hw1", "stu">> THEN g1
                             ELSE IF k = <<"hw2", "stu">> THEN g2
                             ELSE None]]
    /\ score_toml = NoScores
    /\ info_toml = NoInfo
    /\ last = NoCommand

NextBudget == GraceAgain

SpecBudget == InitBudget /\ [][NextBudget]_vars

----------------------------------------------------------------------------
(* SubmissionSlot::status and get_extension (src/asgn_spec.rs).            *)

Ok(v) == [ok |-> TRUE, val |-> v]

Err(e) == [ok |-> FALSE, err |-> e]

\* Path::is_file for a required path of the slot
is_file(slot, f) == slot.files[f] # None /\ f \notin slot.dirs

\* SubmissionSlot::get_extension: 0 without a file, an error for a file the
\* instructor does not own or that does not parse, else its value
get_extension_trusting(slot) ==
    IF slot.extension = None THEN Ok(0)
    ELSE IF slot.extension[1].kind = "dir" THEN Ok(0)
    ELSE IF slot.extension[1].value = None THEN Err("IOFail")
    ELSE Ok(slot.extension[1].value[1])

get_extension(slot) ==
    IF slot.extension = None THEN Ok(0)                  \* ! ext_path.exists()
    ELSE IF slot.extension[1].kind = "dir" THEN Ok(0)    \* ext_path.is_dir()
    ELSE IF slot.extension[1].owner # Instructor THEN Err("IOFail")
    ELSE IF slot.extension[1].value = None THEN Err("IOFail")
    ELSE Ok(slot.extension[1].value[1])

\* i64::max
max(a, b) == IF a >= b THEN a ELSE b

\* The loop of status over file_paths(), lines 621-627, from path k on
RECURSIVE mtime_loop(_, _, _, _)
mtime_loop(slot, file_list, k, mtime) ==
    IF k > Len(file_list) THEN mtime
    ELSE mtime_loop(slot, file_list, k + 1, max(mtime, slot.files[file_list[k]][1]))

\* SubmissionSlot::status
status(slot, spec) ==
    LET submitted == \A i \in 1..Len(spec.file_list) : is_file(slot, spec.file_list[i])
        time      == IF submitted THEN Some(mtime_loop(slot, spec.file_list, 1, 0))
                     ELSE None
        ext       == get_extension(slot)
    IN IF ~ ext.ok THEN Err(ext.err)
       ELSE Ok([turn_in_time |-> time, grace_days |-> get_grace(slot),
                extension_days |-> ext.val])

MTimes == (-1)..MaxMTime

\* What a required path of a slot can be: absent or a plain file of some age
FileStates == {None} \cup {Some(t) : t \in MTimes}

\* What .extension can be: absent, or a file or directory made by someone,
\* a file holding a value or text that does not parse
ExtensionStates ==
    {None} \cup
    {Some([kind |-> k, owner |-> o, value |-> v]) :
        k \in {"file", "dir"}, o \in {"prof", "stu"}, v \in {None, Some(1)}}

\* The slots the status commands look at: the student's slot for hw1
SlotStates ==
    [files : [Files -> FileStates], dirs : SUBSET {"util.h"}, grace : {None, Some(1)},
     extension : ExtensionStates]

\* SubmissionSlot::status of one slot, as a command of its own
Status ==
    /\ last = NoCommand
    /\ \E asgn \in DOMAIN catalog, target \in {"stu"} :
          last' = [cmd |-> "status", asgn |-> asgn, target |-> target,
                   ok |-> status(slots[<<asgn, target>>], catalog[asgn]).ok,
                   log |-> <<>>, stages |-> <<>>,
                   ret |-> status(slots[<<asgn, target>>], catalog[asgn])]
    /\ UNCHANGED <<ruleset, rr, user, now, course, catalog, cwd, slots, grace_total, grace_limit, score_toml, info_toml>>

----------------------------------------------------------------------------
(* SubmissionStatus::versus (src/asgn_spec.rs) and the rows of list_subs   *)
(* (src/context.rs).                                                       *)

\* i64 division, which truncates toward zero
floor_div(a, b) == a \div b

trunc_div(a, b) == IF a >= 0 THEN a \div b ELSE -((-a) \div b)

\* chrono::Duration::num_days, num_hours and num_minutes of whole seconds
num_days(secs) == trunc_div(secs, 86400)

num_hours(secs) == trunc_div(secs, 3600)

num_minutes(secs) == trunc_div(secs, 60)

\* Duration::num_seconds of clock - time, where the clock reads clock.secs
\* whole seconds and, when clock.frac, some nanoseconds more
num_seconds_since(clock, time) ==
    IF clock.secs - time < 0 /\ clock.frac THEN clock.secs - time + 1
    ELSE clock.secs - time

\* format!("Late {}d {}h {}m") and format!("Early {}d {}h {}m")
Lateness(text, days, hours, mins) ==
    [text |-> text, days |-> days, hours |-> hours, mins |-> mins]

Verdict(text) == [text |-> text]

\* The branch of versus that picks "Late", line 688
is_late_or_on_time(late_by) == late_by >= 0

is_late(late_by) == late_by > 0

\* SubmissionStatus::versus; clock is what Local::now() reads inside it
versus(turn_in_time, time, clock) ==
    IF time = None
    THEN IF turn_in_time # None THEN Verdict("Submitted") ELSE Verdict("Not Submitted")
    ELSE IF turn_in_time = None
    THEN IF num_seconds_since(clock, time[1]) <= 0 THEN Verdict("Not Submitted")
         ELSE Verdict("Missing")
    ELSE LET late_by == turn_in_time[1] - time[1]
             days    == num_days(late_by)
             total1  == days * 24
             hours   == num_hours(late_by) - total1
             total2  == (total1 + hours) * 60
             mins    == num_minutes(late_by) - total2
         IN IF is_late(late_by) THEN Lateness("Late", days, hours, mins)
            ELSE Lateness("Early", -days, -hours, -mins)

\* Context::submission_summary_row: the row, or the panic of status().unwrap()
submission_summary_row(asgn, u, clock) ==
    LET st == status(slots[<<asgn, u>>], catalog[asgn])
    IN IF ~ st.ok THEN Err("panic")
       ELSE Ok([asgn |-> asgn, user |-> u,
                lateness |-> versus(st.val.turn_in_time, catalog[asgn].due_date, clock),
                extension |-> st.val.extension_days, grace |-> st.val.grace_days])

\* What a command that prints a table leaves in last
Listed(cmd, asgn, target, outcome, rows, clock) ==
    [cmd |-> cmd, asgn |-> asgn, target |-> target, ok |-> outcome = "Ok",
     log |-> IF outcome \in {"Ok", "panic"} THEN <<>> ELSE <<outcome>>,
     stages |-> <<>>, outcome |-> outcome, rows |-> rows, clock |-> clock]

\* Context::list_subs for one assignment and one user
list_subs(asgn, u, clock) ==
    IF asgn \notin DOMAIN catalog
    THEN Listed("list_subs", asgn, u, "InvalidAsgn", <<>>, clock)
    ELSE IF ~ InSeq(u, members(course))
    THEN Listed("list_subs", asgn, u, "InvalidUser", <<>>, clock)
    ELSE LET row == submission_summary_row(asgn, u, clock)
         IN IF ~ row.ok THEN Listed("list_subs", asgn, u, "panic", <<>>, clock)
            ELSE Listed("list_subs", asgn, u, "Ok", <<row.val>>, clock)

Clocks == [secs : {now}, frac : BOOLEAN]

ListSubs ==
    /\ last = NoCommand
    /\ \E asgn \in DOMAIN catalog \cup {"nope"}, u \in {"stu", "guest"}, clock \in Clocks :
          last' = list_subs(asgn, u, clock)
    /\ UNCHANGED <<ruleset, rr, user, now, course, catalog, cwd, slots, grace_total, grace_limit, score_toml, info_toml>>

\* Timestamps around the minute, hour and day boundaries
TimePoints ==
    {d * 86400 + h * 3600 + m * 60 + sec :
        d \in 0..MaxDays, h \in {0, 1, 23}, m \in {0, 59}, sec \in {0, 59}}

OptTimePoint == {None} \cup {Some(t) : t \in TimePoints}

\* The student's hw1 slot holds both files, last touched at t, or only one
SlotTouched(t) ==
    [EmptySlot EXCEPT !.files = [f \in Files |->
        IF t = None THEN (IF f = "main.cpp" THEN Some(0) ELSE None) ELSE t]]

\* An assignment with any due date, a slot submitted at any time or not at
\* all, and a clock around the due date
InitVersus ==
    /\ ruleset = None
    /\ rr = NotRun
    /\ user = Instructor
    /\ course = OneGraderOneStudent
    /\ \E due \in OptTimePoint :
          /\ catalog = [n \in {"hw1"} |->
                  [AsgnSpec(n, TRUE, None, None, None, None, None) EXCEPT !.due_date = due]]
          /\ now \in IF due = None THEN {0} ELSE {due[1] - 1, due[1], due[1] + 1}
    /\ cwd = [f \in Files |-> "missing"]
    /\ \E t \in OptTimePoint :
          slots = [EmptySlots({"hw1"}) EXCEPT ![<<"hw1", "stu">>] = SlotTouched(t)]
    /\ grace_total = None
    /\ grace_limit = None
    /\ score_toml = NoScores
    /\ last = NoCommand
    /\ info_toml = NoInfo

NextVersus == ListSubs

SpecVersus == InitVersus /\ [][NextVersus]_vars

----------------------------------------------------------------------------
(* Context::offset_date, normal_summary_row and summary (src/context.rs),  *)
(* and StudentAct::details.                                                *)

\* The Local time zone: clocks are one hour ahead from 02:00 of SpringDay
\* to 02:00 (summer time) of FallDay
SpringDay == 1

FallDay == 2

DstStart == SpringDay * 86400 + 7200

DstEnd == FallDay * 86400 + 3600

utc_offset(t) == IF DstStart <= t /\ t < DstEnd THEN 3600 ELSE 0

\* DateTime::naive_local
naive_local(t) == t + utc_offset(t)

\* Local.from_local_datetime: the instants that show the wall-clock time n
from_local_datetime(n) == {t \in {n, n - 3600} : naive_local(t) = n}

\* LocalResult::single
single(ts) == IF Cardinality(ts) = 1 THEN Some(CHOOSE t \in ts : TRUE) ELSE None

\* NaiveDateTime::checked_add_days and checked_sub_days: None outside the
\* calendar
checked_add_days(n, k) ==
    IF n + k * 86400 < 0 \/ n + k * 86400 >= (LastDay + 1) * 86400 THEN None
    ELSE Some(n + k * 86400)

checked_sub_days(n, k) == checked_add_days(n, -k)

\* Context::offset_date
offset_date(date, offset) ==
    IF date = None THEN Ok(None)
    ELSE LET shifted == IF offset >= 0
                        THEN checked_add_days(naive_local(date[1]), offset)
                        ELSE checked_sub_days(naive_local(date[1]), -offset)
         IN IF shifted = None THEN Err("IOFail")
            ELSE IF single(from_local_datetime(shifted[1])) = None THEN Err("IOFail")
            ELSE Ok(single(from_local_datetime(shifted[1])))

\* The STATUS column of a summary row
active_text(spec) ==
    IF ~ spec.active THEN "DISABLED"
    ELSE IF before_open(spec, now) THEN "BEFORE OPEN"
    ELSE IF after_close(spec, now) THEN "AFTER CLOSE"
    ELSE "ENABLED"

\* Context::normal_summary_row: the row, the error of offset_date, or the
\* panic of status().unwrap()
normal_summary_row(asgn, u, clock) ==
    LET spec == catalog[asgn]
        st   == status(slots[<<asgn, u>>], spec)
    IN IF ~ st.ok THEN Err("panic")
       ELSE LET bump         == st.val.extension_days + st.val.grace_days
                ext_due_date == offset_date(spec.due_date, bump)
            IN IF ~ ext_due_date.ok THEN Err(ext_due_date.err)
               ELSE Ok([asgn |-> asgn, active |-> active_text(spec),
                        due_date |-> spec.due_date, bump |-> bump,
                        lateness |-> versus(st.val.turn_in_time, ext_due_date.val, clock)])

\* status().unwrap() of grace_spent panics for one of the user's slots
grace_spent_panics ==
    \E a \in DOMAIN catalog : ~ status(slots[<<a, user>>], catalog[a]).ok

\* Context::summary: rows for the visible assignments, those that are Err
\* dropped, then the grace line
summary(clock) ==
    LET visible == SelectSeq(manifest, LAMBDA n : catalog[n].visible)
        results == [i \in 1..Len(visible) |-> normal_summary_row(visible[i], user, clock)]
        body    == SelectSeq(results, LAMBDA r : r.ok)
        rows    == [i \in 1..Len(body) |-> body[i].val]
    IN IF \E i \in 1..Len(results) : ~ results[i].ok /\ results[i].err = "panic"
       THEN Listed("summary", "", user, "panic", <<>>, clock)
       ELSE IF unwrap_or(grace_total, 0) # 0 /\ grace_spent_panics
       THEN Listed("summary", "", user, "panic", <<>>, clock)
       ELSE Listed("summary", "", user, "Ok", rows, clock)

Summary ==
    /\ last = NoCommand
    /\ \E clock \in Clocks : last' = summary(clock)
    /\ UNCHANGED <<ruleset, rr, user, now, course, catalog, cwd, slots, grace_total, grace_limit, score_toml, info_toml>>

\* StudentAct::details and AsgnSpec::details
details(asgn_name) ==
    IF asgn_name \notin DOMAIN catalog
    THEN Listed("details", asgn_name, user, "InvalidAsgn", <<>>, None)
    ELSE IF ~ catalog[asgn_name].visible
    THEN Listed("details", asgn_name, user, "InvalidAsgn", <<>>, None)
    ELSE LET st == status(slots[<<asgn_name, user>>], catalog[asgn_name])
         IN IF ~ st.ok THEN Listed("details", asgn_name, user, "panic", <<>>, None)
            ELSE Listed("details", asgn_name, user, "Ok",
                        <<[asgn |-> asgn_name, due_date |-> catalog[asgn_name].due_date,
                           extension |-> st.val.extension_days,
                           grace |-> st.val.grace_days]>>, None)

Details ==
    /\ last = NoCommand
    /\ \E asgn_name \in DOMAIN catalog \cup {"nope"} : last' = details(asgn_name)
    /\ UNCHANGED <<ruleset, rr, user, now, course, catalog, cwd, slots, grace_total, grace_limit, score_toml, info_toml>>

\* A student whose hw1 slot is in any state, the assignment visible or not
InitStatus ==
    /\ ruleset = None
    /\ rr = NotRun
    /\ user = "stu"
    /\ now = 0
    /\ course = OneGraderOneStudent
    /\ \E due \in {None, Some(86399)}, v \in BOOLEAN :
          catalog = [n \in {"hw1"} |->
              [AsgnSpec(n, TRUE, None, None, None, None, None)
                  EXCEPT !.due_date = due, !.visible = v]]
    /\ cwd = [f \in Files |-> "missing"]
    /\ \E slot \in SlotStates :
          slots = [EmptySlots({"hw1"}) EXCEPT ![<<"hw1", "stu">>] = slot]
    /\ grace_total \in {None, Some(1)}
    /\ grace_limit = None
    /\ score_toml = NoScores
    /\ last = NoCommand
    /\ info_toml = NoInfo

NextStatus == Status \/ Summary \/ Details \/ ListSubs

SpecStatus == InitStatus /\ [][NextStatus]_vars

\* The wall-clock times a due date is given at, on every day of the calendar
WallClocks == {d * 86400 + tod : d \in 0..LastDay, tod \in {5400, 9000, 86399}}

\* The due dates of info.toml: date_into_chrono takes the one instant of it
DueDates == {t \in 0..((LastDay + 1) * 86400) :
                naive_local(t) \in WallClocks /\ from_local_datetime(naive_local(t)) = {t}}

Extensions ==
    {None} \cup {Some([kind |-> "file", owner |-> Instructor, value |-> Some(v)]) :
                    v \in (-MaxBump)..MaxBump}

\* A student with a submitted hw1, any due date, extension and grace
InitOffset ==
    /\ ruleset = None
    /\ rr = NotRun
    /\ user = "stu"
    /\ now = 0
    /\ course = OneGraderOneStudent
    /\ \E due \in {None} \cup {Some(t) : t \in DueDates} :
          catalog = [n \in {"hw1"} |->
              [AsgnSpec(n, TRUE, None, None, None, None, None) EXCEPT !.due_date = due]]
    /\ cwd = [f \in Files |-> "missing"]
    /\ \E x \in Extensions, g \in {None, Some(1)} :
          slots = [EmptySlots({"hw1"}) EXCEPT
                      ![<<"hw1", "stu">>] = [SlotTouched(Some(0)) EXCEPT
                                                !.extension = x, !.grace = g]]
    /\ grace_total = Some(1)
    /\ grace_limit = None
    /\ score_toml = NoScores
    /\ last = NoCommand
    /\ info_toml = NoInfo

\* Context::offset_date as normal_summary_row calls it, lines 550-556, as a
\* command of its own
OffsetDate ==
    /\ last = NoCommand
    /\ \E asgn \in DOMAIN catalog :
          LET st == status(slots[<<asgn, user>>], catalog[asgn])
          IN /\ st.ok
             /\ last' = [cmd |-> "offset_date", asgn |-> asgn, ok |-> TRUE, log |-> <<>>,
                         stages |-> <<>>, date |-> catalog[asgn].due_date,
                         offset |-> st.val.extension_days + st.val.grace_days,
                         ret |-> offset_date(catalog[asgn].due_date,
                                    st.val.extension_days + st.val.grace_days)]
    /\ UNCHANGED <<ruleset, rr, user, now, course, catalog, cwd, slots, grace_total, grace_limit, score_toml, info_toml>>

NextOffset == Summary \/ OffsetDate

SpecOffset == InitOffset /\ [][NextOffset]_vars

----------------------------------------------------------------------------
(* Properties of submit, stated on what the command left in last and slots. *)

StageTitles == <<"Building", "Evaluating Checks", "Evaluating Scores">>

\* The Ruleset of the j-th stage of a submission
StageRuleset(spec, j) ==
    IF j = 1 THEN spec.build ELSE IF j = 2 THEN spec.check ELSE spec.score

\* The documentation's gate: off when the Ruleset is absent or on_submit is false
GatedOff(optset) == optset = None \/ optset[1].on_submit = Some(FALSE)

IsFatal(ret) == ret # None /\ ~ ret[1].ok

\* The submit command got as far as its pipeline
Piped == last.cmd = "submit" /\ last.stages # <<>>

\* C6: a submission runs Build, then Check, then Score; a stage gated off
\* returns None, runs nothing and does not stop the pipeline; the pipeline
\* ends at the first stage that returns Some(Err), and submit returns Ok
\* whatever the stages returned.
C6_PipelineOrder ==
    Piped =>
        LET spec == catalog[last.asgn]
            n    == Len(last.stages)
        IN /\ n <= 3
           /\ \A j \in 1..n :
                 /\ last.stages[j].title = StageTitles[j]
                 /\ last.stages[j].ret = None <=> GatedOff(StageRuleset(spec, j))
                 /\ j < n => ~ IsFatal(last.stages[j].ret)
           /\ n < 3 => IsFatal(last.stages[n].ret)
           /\ last.ok

C6_Witness ==
    /\ Piped
    /\ Len(last.stages) = 2
    /\ catalog[last.asgn].build # None
    /\ last.stages[1].ret = None
    /\ IsFatal(last.stages[2].ret)
    /\ catalog[last.asgn].score # None
    /\ ~ GatedOff(catalog[last.asgn].score)
    /\ last.ok

\* C7: a student's submission to an assignment that is inactive, whose open
\* date has not been reached (before_open) or whose close date has passed
\* (after_close) is rejected with Inactive, BeforeOpen or AfterClose, and
\* nothing is copied or run.
C7_ClosedToStudents ==
    (last.cmd = "submit" /\ last.asgn \in DOMAIN catalog
        /\ role(course, user) = "Student") =>
        LET spec   == catalog[last.asgn]
            early  == before_open(spec, now)
            late   == after_close(spec, now)
            reason == IF ~ spec.active THEN "Inactive"
                      ELSE IF early THEN "BeforeOpen" ELSE "AfterClose"
        IN (~ spec.active \/ early \/ late) =>
              /\ ~ last.ok
              /\ last.log = <<reason>>
              /\ last.stages = <<>>
              /\ slots = EmptySlots(DOMAIN catalog)

----------------------------------------------------------------------------
(* The runner applied once to a Ruleset.                                   *)

RunRuleset ==
    /\ rr = NotRun
    /\ \E st \in Statuses(NumRules(ruleset)) :
           rr' = [op |-> "run_ruleset", statuses |-> st,
                  ret |-> Some(run_ruleset(ruleset, st, <<>>, FALSE))]
    /\ UNCHANGED <<ruleset, user, now, course, catalog, cwd, slots, grace_total, grace_limit, score_toml, last, info_toml>>

RunOnSubmit ==
    /\ rr = NotRun
    /\ \E st \in Statuses(NumRules(ruleset)) :
           rr' = [op |-> "run_on_submit", statuses |-> st,
                  ret |-> run_on_submit(ruleset, st)]
    /\ UNCHANGED <<ruleset, user, now, course, catalog, cwd, slots, grace_total, grace_limit, score_toml, last, info_toml>>

RunOnGrade ==
    /\ rr = NotRun
    /\ \E st \in Statuses(NumRules(ruleset)) :
           rr' = [op |-> "run_on_grade", statuses |-> st,
                  ret |-> run_on_grade(ruleset, st)]
    /\ UNCHANGED <<ruleset, user, now, course, catalog, cwd, slots, grace_total, grace_limit, score_toml, last, info_toml>>

InitRules ==
    /\ ruleset \in OptRuleset
    /\ rr = NotRun
    /\ user = Instructor
    /\ now = 0
    /\ course = NoMembers
    /\ catalog = <<>>
    /\ cwd = <<>>
    /\ slots = <<>>
    /\ grace_total = None
    /\ grace_limit = None
    /\ score_toml = NoScores
    /\ last = NoCommand
    /\ info_toml = NoInfo

NextRules == RunRuleset \/ RunOnSubmit \/ RunOnGrade

SpecRules == InitRules /\ [][NextRules]_vars

\* Rule.kind of a metric rule: absent, a kind log_metric knows, or another
Kinds == {None, Some("bool"), Some("int"), Some("float"), Some("text")}

\* Score rule lists of at most n rules, one per sequence of kinds
MetricRuleLists(n) ==
    {[i \in 1..Len(ks) |-> [target |-> TargetAt(i), fail_okay |-> None, kind |-> ks[i]]] :
        ks \in SeqsUpTo(Kinds, n)}

MetricRulesets ==
    {Some([on_grade |-> None, on_submit |-> None, fail_okay |-> f, rules |-> rs]) :
        f \in {None, Some(TRUE)}, rs \in MetricRuleLists(MaxRules)}

\* What the file of a target holds after its rule ran: a text, or nothing
\* that can be read; only the files of rules that passed are read
Outputs(statuses) ==
    {o \in [DOMAIN statuses -> {None} \cup {Some(t) : t \in MetricTexts}] :
        \A i \in DOMAIN statuses : statuses[i] # "success" => o[i] = None}

\* The metric run of latest_score: run_ruleset(.., asgn.score, .., true)
RunMetrics ==
    /\ rr = NotRun
    /\ \E st \in Statuses(NumRules(ruleset)) : \E out \in Outputs(st) :
           rr' = [op |-> "run_metrics", statuses |-> st, outputs |-> out,
                  ret |-> Some(run_ruleset(ruleset, st, out, TRUE))]
    /\ UNCHANGED <<ruleset, user, now, course, catalog, cwd, slots, grace_total, grace_limit, score_toml, last, info_toml>>

InitMetrics ==
    /\ ruleset \in MetricRulesets
    /\ rr = NotRun
    /\ user = Instructor
    /\ now = 0
    /\ course = NoMembers
    /\ catalog = <<>>
    /\ cwd = <<>>
    /\ slots = <<>>
    /\ grace_total = None
    /\ grace_limit = None
    /\ score_toml = NoScores
    /\ last = NoCommand
    /\ info_toml = NoInfo

NextMetrics == RunMetrics \/ RunRuleset

SpecMetrics == InitMetrics /\ [][NextMetrics]_vars

----------------------------------------------------------------------------
(* rank: the table of the stored scores of an assignment, ordered by one   *)
(* metric.  A stored score is a toml::Value, kept as its type and the text *)
(* it was parsed from; rank prints it and parses the printed text again.   *)

\* Display of a toml::Value: a float is always shown with a fraction
to_string(v) == IF v.type = "Float" THEN v.text \o ".0" ELSE v.text

\* the numbers that the printed texts denote
NumberOf == [t \in {"2", "2.0", "10", "10.0"} |->
                IF t \in {"2", "2.0"} THEN 2 ELSE 10]

\* str::parse::<T>() for T = bool, i64, f64: the value, or None (an Err);
\* a bool is ordered false < true
from_str(kind, text) ==
    IF kind = "bool"
    THEN IF text = "true" THEN Some(1) ELSE IF text = "false" THEN Some(0) ELSE None
    ELSE IF kind = "int"
    THEN IF text \in {"2", "10"} THEN Some(NumberOf[text]) ELSE None
    ELSE IF text \in DOMAIN NumberOf THEN Some(NumberOf[text]) ELSE None

\* StatBlockSet::get_block: the first block of the user
get_block(blocks, name) ==
    LET hits == {i \in 1..Len(blocks) : blocks[i].user = name}
    IN IF hits = {} THEN None
       ELSE Some(blocks[CHOOSE i \in hits : \A j \in hits : i <= j])

\* the comparator of rows.sort_by, on the sort keys of two rows; a mutant
\* that puts the rows without a value first
compare_missing_first(a, b, up) ==
    IF a # None /\ b # None
    THEN IF a[1] = b[1] THEN "Equal"
         ELSE IF (a[1] < b[1]) = up THEN "Less" ELSE "Greater"
    ELSE IF a # None THEN "Greater"
    ELSE IF b # None THEN "Less"
    ELSE "Equal"

\* the comparator of rows.sort_by, on the sort keys of two rows
compare(a, b, up) ==
    IF a # None /\ b # None
    THEN IF a[1] = b[1] THEN "Equal"
         ELSE IF (a[1] < b[1]) = up THEN "Less" ELSE "Greater"
    ELSE IF a # None THEN "Less"
    ELSE IF b # None THEN "Greater"
    ELSE "Equal"

\* one step of the stable sort: x goes behind every row that is not after it
insert(sorted, x, up) ==
    LET keep == {i \in 1..Len(sorted) : compare(sorted[i].score, x.score, up) # "Greater"}
        k    == Cardinality(keep)
    IN SubSeq(sorted, 1, k) \o <<x>> \o SubSeq(sorted, k + 1, Len(sorted))

RECURSIVE sort_by(_, _)
\* Vec::sort_by, a stable sort
sort_by(rows, up) ==
    IF rows = <<>> THEN <<>>
    ELSE insert(sort_by(SubSeq(rows, 1, Len(rows) - 1), up), rows[Len(rows)], up)

\* the (score, row) pair of one member that has a stat block
ranked_row(block, member, rules, rule_name, kind) ==
    [score |-> IF block.scores[rule_name] = None THEN None
               ELSE from_str(kind, to_string(block.scores[rule_name][1])),
     row   |-> <<Some(member)>> \o
               [i \in 1..Len(rules) |->
                   IF block.scores[rules[i].target] = None THEN None
                   ELSE Some(to_string(block.scores[rules[i].target][1]))]]

RECURSIVE collect_rows(_, _, _, _, _)
\* the loop over context.members: a member without a stat block is passed over
collect_rows(blocks, mems, rules, rule_name, kind) ==
    IF mems = <<>> THEN <<>>
    ELSE LET block == get_block(blocks, Head(mems))
             rest  == collect_rows(blocks, Tail(mems), rules, rule_name, kind)
         IN IF block = None THEN rest
            ELSE <<ranked_row(block[1], Head(mems), rules, rule_name, kind)>> \o rest

\* parse::<T>().unwrap() of a stored score that is not a T panics
parse_panics(blocks, mems, rule_name, kind) ==
    \E i \in 1..Len(mems) :
        LET block == get_block(blocks, mems[i])
        IN /\ block # None
           /\ block[1].scores[rule_name] # None
           /\ from_str(kind, to_string(block[1].scores[rule_name][1])) = None

\* StudentAct::rank_specialized::<T>, T given by kind: the printed table
rank_specialized(stats, rules, rule_name, up, mems, kind) ==
    IF stats = None THEN Err("IOFail")
    ELSE IF parse_panics(stats[1], mems, rule_name, kind) THEN Err("panic")
    ELSE LET header == <<"User">> \o [i \in 1..Len(rules) |-> rules[i].target]
             rows   == sort_by(collect_rows(stats[1], mems, rules, rule_name, kind), up)
         IN Ok(<<header>> \o
               [r \in 1..Len(rows) |->
                   [c \in 1..Len(rows[r].row) |->
                       IF rows[r].row[c] = None THEN "None" ELSE rows[r].row[c][1]]])

\* StudentAct::rank
rank(asgn_name, rule_name, up) ==
    IF asgn_name \notin DOMAIN catalog THEN Err("InvalidAsgn")
    ELSE IF catalog[asgn_name].score = None THEN Err("Custom")
    ELSE LET rules == catalog[asgn_name].score[1].rules
             hits  == {i \in 1..Len(rules) : rules[i].target = rule_name}
         IN IF hits = {} THEN Err("Custom")
            ELSE LET kind == rules[CHOOSE i \in hits : \A j \in hits : i <= j].kind
                 IN IF kind = None THEN Err("IOFail")
                    ELSE IF kind[1] \notin {"bool", "int", "float"} THEN Err("IOFail")
                    ELSE rank_specialized(score_toml[asgn_name], rules, rule_name,
                                          up, members(course), kind[1])

\* asgn rank-ascending / rank-descending <asgn> <score>
Rank ==
    /\ last = NoCommand
    /\ \E asgn \in DOMAIN catalog \cup {"nope"}, score \in Targets \cup {"style"}, up \in BOOLEAN :
           last' = [cmd |-> "rank", asgn |-> asgn, score |-> score, up |-> up,
                    ok |-> rank(asgn, score, up).ok,
                    log |-> IF rank(asgn, score, up).ok \/ rank(asgn, score, up).err = "panic"
                            THEN <<>> ELSE <<rank(asgn, score, up).err>>,
                    stages |-> <<>>, ret |-> rank(asgn, score, up)]
    /\ UNCHANGED <<ruleset, rr, user, now, course, catalog, cwd, slots, grace_total, grace_limit, score_toml, info_toml>>

\* the scores a stat block can hold for one metric
ScoreValues == {[type |-> "Integer", text |-> "2"], [type |-> "Integer", text |-> "10"],
                [type |-> "Float", text |-> "2"]}

\* StatBlock of a user: the first metric holds any score, the second an
\* integer or nothing
StatBlocks(u) ==
    {[user |-> u, scores |-> [t \in Targets |-> IF t = "lint" THEN a ELSE b]] :
        a \in {None} \cup {Some(v) : v \in ScoreValues},
        b \in {None, Some([type |-> "Integer", text |-> "2"])}}

\* the blocks of a StatBlockSet in the order update_scores writes them, each
\* member having one block or none
RECURSIVE BlockLists(_)
BlockLists(mems) ==
    IF mems = <<>> THEN {<<>>}
    ELSE LET rest == BlockLists(Tail(mems))
         IN rest \cup {<<b>> \o r : b \in StatBlocks(Head(mems)), r \in rest}

\* score Rulesets of two metrics, the first of any kind
RankRulesets ==
    {None} \cup
    {Some([on_grade |-> None, on_submit |-> None, fail_okay |-> None,
           rules |-> <<[target |-> "lint", fail_okay |-> None, kind |-> k],
                       [target |-> "compile", fail_okay |-> None, kind |-> Some("int")]>>]) :
        k \in Kinds}

\* two students, in either order of course.toml
RankCourses == {[graders |-> <<>>, students |-> s] : s \in {<<"stu", "pal">>, <<"pal", "stu">>}}

InitRank ==
    /\ ruleset = None
    /\ rr = NotRun
    /\ user = "stu"
    /\ now = 0
    /\ course \in RankCourses
    /\ \E s \in RankRulesets :
           catalog = [n \in {"hw1"} |-> AsgnSpec(n, TRUE, None, None, None, None, s)]
    /\ cwd = <<>>
    /\ slots = <<>>
    /\ grace_total = None
    /\ grace_limit = None
    /\ \E st \in {None} \cup {Some(l) : l \in BlockLists(<<Instructor, "stu", "pal">>)} :
           score_toml = [n \in {"hw1"} |-> st]
    /\ last = NoCommand
    /\ info_toml = NoInfo

NextRank == Rank

SpecRank == InitRank /\ [][NextRank]_vars

----------------------------------------------------------------------------
(* update_scores: the refresh of .info/score.toml (src/act/instructor.rs). *)

\* toml::value::Datetime without an offset: a day of the calendar and the
\* seconds of a time of day, each of them optional
Datetime(date, time) == [date |-> date, time |-> time]

\* util::date_into_chrono: 23:59:59 without a time of day, an error without
\* a date; with_ymd_and_hms(..).unwrap() panics on a wall-clock time that
\* no instant or more than one instant shows
date_into_chrono(deadline) ==
    IF deadline.date = None THEN Err("BadSpec")
    ELSE LET n == deadline.date[1] * 86400 + unwrap_or(deadline.time, 86399)
         IN IF single(from_local_datetime(n)) = None THEN Err("panic")
            ELSE Ok(single(from_local_datetime(n))[1])

\* util::date_from_chrono: the wall-clock date and time of an instant
date_from_chrono(t) ==
    Datetime(Some(naive_local(t) \div 86400), Some(naive_local(t) % 86400))

\* AsgnSpec::retrieve_sub: copies the files of the slot; a directory is
\* passed over, a missing file is an error
retrieve_sub(slot, spec) ==
    IF \E i \in 1..Len(spec.file_list) :
          spec.file_list[i] \notin slot.dirs /\ slot.files[spec.file_list[i]] = None
    THEN Err("Custom")
    ELSE Ok(TRUE)

\* what latest_score returns, and the Ruleset runs it made on the way
Scored(outcome, block, how, stages) ==
    [outcome |-> outcome, block |-> block, how |-> how, stages |-> stages]

\* the staleness test of latest_score, line 411; two mutants: an exact
\* comparison, and a test of the distance in either direction
up_to_date_exact(turn_in_time, old_time) == turn_in_time - old_time <= 0

up_to_date_either_way(turn_in_time, old_time) ==
    turn_in_time - old_time <= 1 /\ old_time - turn_in_time <= 1

up_to_date(turn_in_time, old_time) == turn_in_time - old_time <= 1

\* the rebuild of latest_score, lines 422-444; two mutants: one that stops
\* when Build is fatal, and one that runs Build as a submit does
rebuild_build_gates(u, turn_in_time, asgn, st) ==
    LET build  == run_ruleset(asgn.build, st.build, <<>>, FALSE)
        score  == run_ruleset(asgn.score, st.score, st.outputs, TRUE)
    IN IF ~ build.ok
       THEN Scored("Err", None, "rebuilt", <<[stage |-> "build", ret |-> build]>>)
       ELSE Scored("Ok",
                   Some([user |-> u, time |-> date_from_chrono(turn_in_time),
                         scores |-> IF score.ok THEN score.scores
                                    ELSE [t \in Targets |-> None]]),
                   "rebuilt",
                   <<[stage |-> "build", ret |-> build], [stage |-> "score", ret |-> score]>>)

rebuild_on_submit(u, turn_in_time, asgn, st) ==
    LET build  == run_on_submit(asgn.build, st.build)
        score  == run_ruleset(asgn.score, st.score, st.outputs, TRUE)
    IN Scored("Ok",
              Some([user |-> u, time |-> date_from_chrono(turn_in_time),
                    scores |-> IF score.ok THEN score.scores
                               ELSE [t \in Targets |-> None]]),
              "rebuilt",
              (IF build = None THEN <<>> ELSE <<[stage |-> "build", ret |-> build[1]]>>)
                  \o <<[stage |-> "score", ret |-> score]>>)

rebuild(u, turn_in_time, asgn, st) ==
    LET build  == run_ruleset(asgn.build, st.build, <<>>, FALSE)
        score  == run_ruleset(asgn.score, st.score, st.outputs, TRUE)
    IN Scored("Ok",
              Some([user |-> u, time |-> date_from_chrono(turn_in_time),
                    scores |-> IF score.ok THEN score.scores
                               ELSE [t \in Targets |-> None]]),
              "rebuilt",
              <<[stage |-> "build", ret |-> build], [stage |-> "score", ret |-> score]>>)

\* InstructorAct::latest_score; a mutant that looks for the cached block
\* before it looks at the submission
latest_score_cache_first(old_stats, u, asgn, st) ==
    LET stats == get_block(old_stats, u)
    IN IF stats # None THEN Scored("Ok", stats, "cached", <<>>)
       ELSE Scored("Ok", None, "none", <<>>)

latest_score(old_stats, u, asgn, st) ==
    LET slot == slots[<<asgn.name, u>>]
        stat == status(slot, asgn)
    IN IF ~ stat.ok THEN Scored("panic", None, "none", <<>>)
       ELSE IF stat.val.turn_in_time = None THEN Scored("Ok", None, "none", <<>>)
       ELSE LET turn_in_time == stat.val.turn_in_time[1]
                stats        == get_block(old_stats, u)
                old_time     == date_into_chrono(stats[1].time)
            IN IF stats # None /\ ~ old_time.ok
               THEN Scored(IF old_time.err = "panic" THEN "panic" ELSE "Err",
                           None, "none", <<>>)
               ELSE IF stats # None /\ up_to_date(turn_in_time, old_time.val)
               THEN Scored("Ok", stats, "cached", <<>>)
               ELSE IF ~ retrieve_sub(slot, asgn).ok
               THEN Scored("Err", None, "none", <<>>)
               ELSE rebuild(u, turn_in_time, asgn, st)

\* whether latest_score runs the Rulesets for the user
rebuilds(old_stats, u, asgn) ==
    latest_score(old_stats, u, [asgn EXCEPT !.build = None, !.score = None],
                 [build |-> <<>>, score |-> <<>>, outputs |-> <<>>]).how = "rebuilt"

RECURSIVE score_loop(_, _, _, _, _)
\* the loop of update_scores over context.members, lines 463-480: the
\* results of latest_score in order, up to a panic
score_loop(old_stats, mems, k, asgn, sts) ==
    IF k > Len(mems) THEN <<>>
    ELSE LET res == latest_score(old_stats, mems[k], asgn, sts[k])
         IN IF res.outcome = "panic" THEN <<res>>
            ELSE <<res>> \o score_loop(old_stats, mems, k + 1, asgn, sts)

RECURSIVE pushed(_)
\* new_stats.stat_block: the blocks of the results that are Ok(Some(block))
pushed(results) ==
    IF results = <<>> THEN <<>>
    ELSE (IF Head(results).outcome = "Ok" /\ Head(results).block # None
          THEN <<Head(results).block[1]>> ELSE <<>>) \o pushed(Tail(results))

\* InstructorAct::update_scores: the outcome, the result of every member and
\* the StatBlockSet it leaves in score.toml
update_scores(asgn_name, sts) ==
    IF asgn_name \notin DOMAIN catalog
    THEN [outcome |-> "InvalidAsgn", results |-> <<>>, file |-> None]
    ELSE IF score_toml[asgn_name] = None
    THEN [outcome |-> "IOFail", results |-> <<>>, file |-> None]
    ELSE LET results == score_loop(score_toml[asgn_name][1], members(course), 1,
                                   catalog[asgn_name], sts)
         IN IF \E i \in 1..Len(results) : results[i].outcome = "panic"
            THEN [outcome |-> "panic", results |-> results, file |-> score_toml[asgn_name]]
            ELSE [outcome |-> "Ok", results |-> results, file |-> Some(pushed(results))]

\* the exit statuses and metric files of one rebuild
MemberRuns(asgn) ==
    {[build |-> b, score |-> sc, outputs |-> o] :
        b \in Statuses(NumRules(asgn.build)),
        sc \in Statuses(NumRules(asgn.score)),
        o \in UNION {Outputs(x) : x \in Statuses(NumRules(asgn.score))}}

RECURSIVE RunLists(_, _, _)
\* one run per member, of which only those of a rebuild are read
RunLists(old_stats, mems, asgn) ==
    IF mems = <<>> THEN {<<>>}
    ELSE LET heads == IF rebuilds(old_stats, Head(mems), asgn)
                      THEN {r \in MemberRuns(asgn) : r.outputs \in Outputs(r.score)}
                      ELSE {[build |-> <<>>, score |-> <<>>, outputs |-> <<>>]}
         IN {<<h>> \o r : h \in heads, r \in RunLists(old_stats, Tail(mems), asgn)}

\* asgn update-scores <asgn>, by the instructor
UpdateScores ==
    /\ last = NoCommand
    /\ \E asgn \in DOMAIN catalog \cup {"nope"} :
       \E sts \in (IF asgn \in DOMAIN catalog /\ score_toml[asgn] # None
                   THEN RunLists(score_toml[asgn][1], members(course), catalog[asgn])
                   ELSE {<<>>}) :
           \E out \in {update_scores(asgn, sts)} :
              /\ last' = [cmd |-> "update_scores", asgn |-> asgn,
                          ok |-> out.outcome = "Ok",
                          log |-> IF out.outcome \in {"Ok", "panic"} THEN <<>>
                                  ELSE <<out.outcome>>,
                          stages |-> <<>>, outcome |-> out.outcome,
                          results |-> out.results,
                          old_stats |-> IF asgn \in DOMAIN catalog THEN score_toml[asgn]
                                        ELSE None]
              /\ score_toml' = IF out.outcome = "Ok"
                               THEN [score_toml EXCEPT ![asgn] = out.file]
                               ELSE score_toml
    /\ UNCHANGED <<ruleset, rr, user, now, course, catalog, cwd, slots, grace_total, grace_limit, info_toml>>

\* the instant of the submissions of a refresh
SubmitTime == 100

\* the stat block a user already has: written for a submission of up to
\* MaxSkew seconds before or after SubmitTime
OldBlocks(u) ==
    {[user |-> u, time |-> date_from_chrono(SubmitTime + d),
      scores |-> [t \in Targets |->
                     IF t = "lint" THEN Some([type |-> "Integer", text |-> "2"]) ELSE None]] :
        d \in (-MaxSkew)..MaxSkew}

RECURSIVE OldBlockLists(_)
\* score.toml before the refresh: of each user one block or none
OldBlockLists(us) ==
    IF us = <<>> THEN {<<>>}
    ELSE LET rest == OldBlockLists(Tail(us))
         IN rest \cup {<<b>> \o r : b \in OldBlocks(Head(us)), r \in rest}

\* the Build of a scored assignment: none, or one rule, gated off or not
RefreshBuilds ==
    {None} \cup
    {Some([on_grade |-> g, on_submit |-> g, fail_okay |-> None,
           rules |-> <<[target |-> "compile", fail_okay |-> None]>>]) :
        g \in {None, Some(FALSE)}}

\* the Score of a scored assignment: none, or one int metric, gated off or not
RefreshScores ==
    {None} \cup
    {Some([on_grade |-> g, on_submit |-> g, fail_okay |-> None,
           rules |-> <<[target |-> "lint", fail_okay |-> None, kind |-> Some("int")]>>]) :
        g \in {None, Some(FALSE)}}

\* a course whose student is also listed as a grader
StudentAlsoGrader == [graders |-> <<"stu">>, students |-> <<"stu">>]

\* the slot of a user who handed in at t, or who handed in one file only
RefreshSlots == {SlotTouched(None), SlotTouched(Some(SubmitTime))}

\* The instructor refreshes hw1: the grader and the student have handed in
\* or not, and score.toml holds blocks of an earlier refresh
InitRefresh ==
    /\ ruleset = None
    /\ rr = NotRun
    /\ user = Instructor
    /\ now = 0
    /\ course \in {OneGraderOneStudent, StudentAlsoGrader}
    /\ \E b \in RefreshBuilds, sc \in RefreshScores :
           catalog = [n \in {"hw1"} |-> AsgnSpec(n, TRUE, None, None, b, None, sc)]
    /\ cwd = <<>>
    /\ \E a \in RefreshSlots, b \in RefreshSlots :
           slots = [EmptySlots({"hw1"}) EXCEPT ![<<"hw1", "ta">>] = a, ![<<"hw1", "stu">>] = b]
    /\ grace_total = None
    /\ grace_limit = None
    /\ \E st \in {None} \cup {Some(l) : l \in OldBlockLists(<<"ta", "stu">>)} :
           score_toml = [n \in {"hw1"} |-> st]
    /\ last = NoCommand
    /\ info_toml = NoInfo

NextRefresh == UpdateScores

SpecRefresh == InitRefresh /\ [][NextRefresh]_vars

----------------------------------------------------------------------------
(* Loading and saving an assignment: AsgnSpec::load, AsgnSpec::sync and    *)
(* the commands of the instructor that edit a spec.                        *)

\* Context.base_path, as its components
BasePath == <<"course">>

\* Path::components of a name field
components(name) ==
    IF name = "" THEN <<>>
    ELSE IF name = "course/hw1" THEN <<"course", "hw1">>
    ELSE <<name>>

\* Path::ends_with: child is a suffix of path, component by component; a
\* mutant that asks for the last component to be the whole of child
ends_with_file_name(path, child) == Len(child) = 1 /\ path[Len(path)] = child[1]

ends_with(path, child) ==
    /\ Len(child) <= Len(path)
    /\ \A i \in 1..Len(child) : path[Len(path) - Len(child) + i] = child[i]

\* a catalog entry that is the Err of load; an entry that is Ok is the spec
Unloaded(err) == [failed |-> err]

is_ok(entry) == "failed" \notin DOMAIN entry

\* AsgnSpec::from_toml: the dates are converted, the other fields copied
from_toml(toml) ==
    IF toml.due_date # None /\ ~ date_into_chrono(toml.due_date[1]).ok
    THEN Err(date_into_chrono(toml.due_date[1]).err)
    ELSE Ok([AsgnSpec(toml.name, toml.active, None, None, None, None, None) EXCEPT
                !.visible = toml.visible,
                !.file_list = toml.file_list,
                !.due_date = IF toml.due_date = None THEN None
                             ELSE Some(date_into_chrono(toml.due_date[1]).val)])

\* AsgnSpec::load of the directory path whose info.toml holds toml
load(path, toml) ==
    IF toml = None THEN Err("NoSpec")
    ELSE IF ~ from_toml(toml[1]).ok THEN from_toml(toml[1])
    ELSE IF ~ ends_with(path, components(from_toml(toml[1]).val.name)) THEN Err("BadSpec")
    ELSE from_toml(toml[1])

\* From<AsgnSpec> for AsgnSpecToml; two mutants: dates written in UTC, and
\* dates written without their time of day
into_toml_utc(spec) ==
    [name |-> spec.name, active |-> spec.active, visible |-> spec.visible,
     due_date |-> IF spec.due_date = None THEN None
                  ELSE Some(Datetime(Some(spec.due_date[1] \div 86400),
                                     Some(spec.due_date[1] % 86400))),
     file_list |-> spec.file_list]

into_toml(spec) ==
    [name |-> spec.name, active |-> spec.active, visible |-> spec.visible,
     due_date |-> IF spec.due_date = None THEN None
                  ELSE Some(date_from_chrono(spec.due_date[1])),
     file_list |-> spec.file_list]

\* Context::populate_catalog: the result of load for every name of the manifest
populate_catalog(files) ==
    [n \in DOMAIN files |->
        IF load(Append(BasePath, n), files[n]).ok
        THEN load(Append(BasePath, n), files[n]).val
        ELSE Unloaded(load(Append(BasePath, n), files[n]).err)]

\* the lookup every command starts with: the spec, InvalidAsgn for a name
\* that is not in the catalog, or the error that load left there
get_spec(asgn) ==
    IF asgn \notin DOMAIN catalog THEN Err("InvalidAsgn")
    ELSE IF ~ is_ok(catalog[asgn]) THEN Err(catalog[asgn].failed)
    ELSE Ok(catalog[asgn])

\* what a command that edits a spec leaves: the outcome, the catalog and
\* the info.toml files
Edited(outcome, cat, files) == [outcome |-> outcome, catalog |-> cat, info_toml |-> files]

\* a command of the instructor that changes the spec with change and calls sync
edit(asgn, change) ==
    IF ~ get_spec(asgn).ok THEN Edited(get_spec(asgn).err, catalog, info_toml)
    ELSE Edited("Ok", [catalog EXCEPT ![asgn] = change],
                [info_toml EXCEPT ![asgn] = Some(into_toml(change))])

\* InstructorAct::set_due
set_due(asgn, date) ==
    IF ~ get_spec(asgn).ok THEN Edited(get_spec(asgn).err, catalog, info_toml)
    ELSE IF ~ date_into_chrono(date).ok
    THEN Edited(date_into_chrono(date).err, catalog, info_toml)
    ELSE edit(asgn, [catalog[asgn] EXCEPT !.due_date = Some(date_into_chrono(date).val)])

\* InstructorAct::publish, unpublish, enable and disable
publish(asgn) ==
    IF ~ get_spec(asgn).ok THEN edit(asgn, None)
    ELSE edit(asgn, [catalog[asgn] EXCEPT !.visible = TRUE])

unpublish(asgn) ==
    IF ~ get_spec(asgn).ok THEN edit(asgn, None)
    ELSE edit(asgn, [catalog[asgn] EXCEPT !.visible = FALSE])

enable(asgn) ==
    IF ~ get_spec(asgn).ok THEN edit(asgn, None)
    ELSE edit(asgn, [catalog[asgn] EXCEPT !.active = TRUE])

disable(asgn) ==
    IF ~ get_spec(asgn).ok THEN edit(asgn, None)
    ELSE edit(asgn, [catalog[asgn] EXCEPT !.active = FALSE])

\* what an edit command leaves in last
EditDone(cmd, asgn, out) ==
    [cmd |-> cmd, asgn |-> asgn, ok |-> out.outcome = "Ok",
     log |-> IF out.outcome \in {"Ok", "panic"} THEN <<>> ELSE <<out.outcome>>,
     stages |-> <<>>, outcome |-> out.outcome]

\* the dates of the calendar as info.toml or the command line give them:
\* with a time of day, without one, or without a day
TomlDates ==
    {Datetime(d, t) : d \in {None} \cup {Some(x) : x \in 0..LastDay},
                      t \in {None} \cup {Some(x) : x \in {5400, 9000, 86399}}}

SetDue ==
    /\ last = NoCommand
    /\ \E asgn \in DOMAIN catalog \cup {"nope"}, date \in TomlDates :
       \E out \in {set_due(asgn, date)} :
           /\ last' = EditDone("set_due", asgn, out)
           /\ catalog' = out.catalog
           /\ info_toml' = out.info_toml
    /\ UNCHANGED <<ruleset, rr, user, now, course, cwd, slots, grace_total, grace_limit, score_toml>>

Publish ==
    /\ last = NoCommand
    /\ \E asgn \in DOMAIN catalog \cup {"nope"} :
       \E out \in {publish(asgn)} :
           /\ last' = EditDone("publish", asgn, out)
           /\ catalog' = out.catalog
           /\ info_toml' = out.info_toml
    /\ UNCHANGED <<ruleset, rr, user, now, course, cwd, slots, grace_total, grace_limit, score_toml>>

Unpublish ==
    /\ last = NoCommand
    /\ \E asgn \in DOMAIN catalog \cup {"nope"} :
       \E out \in {unpublish(asgn)} :
           /\ last' = EditDone("unpublish", asgn, out)
           /\ catalog' = out.catalog
           /\ info_toml' = out.info_toml
    /\ UNCHANGED <<ruleset, rr, user, now, course, cwd, slots, grace_total, grace_limit, score_toml>>

Enable ==
    /\ last = NoCommand
    /\ \E asgn \in DOMAIN catalog \cup {"nope"} :
       \E out \in {enable(asgn)} :
           /\ last' = EditDone("enable", asgn, out)
           /\ catalog' = out.catalog
           /\ info_toml' = out.info_toml
    /\ UNCHANGED <<ruleset, rr, user, now, course, cwd, slots, grace_total, grace_limit, score_toml>>

Disable ==
    /\ last = NoCommand
    /\ \E asgn \in DOMAIN catalog \cup {"nope"} :
       \E out \in {disable(asgn)} :
           /\ last' = EditDone("disable", asgn, out)
           /\ catalog' = out.catalog
           /\ info_toml' = out.info_toml
    /\ UNCHANGED <<ruleset, rr, user, now, course, cwd, slots, grace_total, grace_limit, score_toml>>

\* StudentAct::rank, with the lookup of a catalog that holds failed loads
RankLoaded ==
    /\ last = NoCommand
    /\ \E asgn \in DOMAIN catalog \cup {"nope"}, score \in Targets, up \in BOOLEAN :
       \E out \in {IF asgn \in DOMAIN catalog /\ ~ is_ok(catalog[asgn])
                   THEN Err(catalog[asgn].failed) ELSE rank(asgn, score, up)} :
           last' = [cmd |-> "rank", asgn |-> asgn, score |-> score, up |-> up,
                    ok |-> out.ok,
                    log |-> IF out.ok \/ out.err = "panic" THEN <<>> ELSE <<out.err>>,
                    stages |-> <<>>, ret |-> out]
    /\ UNCHANGED <<ruleset, rr, user, now, course, catalog, cwd, slots, grace_total, grace_limit, score_toml, info_toml>>

\* the next run of the program: Context::deduce loads the catalog again
Deduce ==
    /\ last.cmd \in {"set_due", "publish", "unpublish", "enable", "disable"}
    /\ last.outcome # "panic"
    /\ catalog' = populate_catalog(info_toml)
    /\ last' = [cmd |-> "deduce", asgn |-> last.asgn, ok |-> TRUE, log |-> <<>>,
                stages |-> <<>>, after |-> last.cmd, saved |-> catalog]
    /\ UNCHANGED <<ruleset, rr, user, now, course, cwd, slots, grace_total, grace_limit, score_toml, info_toml>>

\* the name fields of an info.toml kept in the directory hw1
NameFields == {"hw1", "hw2", "", "course/hw1"}

\* the info.toml files the instructor can have written
InfoTomls ==
    [name : NameFields, active : BOOLEAN, visible : BOOLEAN,
     due_date : {None} \cup {Some(d) : d \in TomlDates}, file_list : {FileList}]

\* The instructor with the course directory as the last run left it; a
\* course whose info.toml files stop load with a panic has no Context
InitLoad ==
    /\ ruleset = None
    /\ rr = NotRun
    /\ user = Instructor
    /\ now = 0
    /\ course = OneGraderOneStudent
    /\ \E t \in {None} \cup {Some(i) : i \in InfoTomls} :
          /\ info_toml = [n \in {"hw1"} |-> t]
          /\ IF load(Append(BasePath, "hw1"), t).ok THEN TRUE
             ELSE load(Append(BasePath, "hw1"), t).err # "panic"
          /\ catalog = populate_catalog(info_toml)
    /\ cwd = <<>>
    /\ slots = EmptySlots({"hw1"})
    /\ grace_total = None
    /\ grace_limit = None
    /\ score_toml = [n \in {"hw1"} |-> Some(<<>>)]
    /\ last = NoCommand

NextLoad == SetDue \/ Publish \/ Unpublish \/ Enable \/ Disable \/ RankLoaded \/ Deduce

SpecLoad == InitLoad /\ [][NextLoad]_vars

----------------------------------------------------------------------------
(* Properties of the runner, stated on what a finished call left in rr.    *)

\* The call ran a Ruleset to its end and returned a Result
Finished == rr.ret # None /\ ruleset # None

\* The tolerance the documentation gives rule i: its own fail_okay when set,
\* otherwise the Ruleset's, otherwise false
Tolerated(set, i) ==
    IF set.rules[i].fail_okay # None THEN set.rules[i].fail_okay[1]
    ELSE IF set.fail_okay # None THEN set.fail_okay[1]
    ELSE FALSE

\* Rule i, if run with the given exit statuses, ends the run
FatalRule(set, statuses, i) ==
    \/ statuses[i] = "noexec"
    \/ statuses[i] = "failure" /\ ~ Tolerated(set, i)

FatalRules(set, statuses) ==
    {i \in 1..Len(set.rules) : FatalRule(set, statuses, i)}

FirstOf(S) == CHOOSE i \in S : \A j \in S : i <= j

\* C1: when run_ruleset finishes, passed + failed + not_reached is the number
\* of rules of the Ruleset, no counter is negative, and not_reached > 0 only
\* if a rule of that run was Fatal.
C1_CountersAddUp ==
    Finished =>
        LET res == rr.ret[1]
            s   == res.summary[1]
        IN /\ s.count = Len(ruleset[1].rules)
           /\ s.passed >= 0 /\ s.failed >= 0 /\ s.not_reached >= 0
           /\ s.passed + s.failed + s.not_reached = s.count
           /\ s.not_reached > 0 =>
                  \E i \in 1..Len(res.outcomes) : res.outcomes[i] = "Err"

C1_Witness ==
    /\ Finished
    /\ rr.ret[1].summary[1].not_reached > 0
    /\ rr.ret[1].summary[1].failed > 0

\* C2: a rule whose command exits with a failure is Fatal exactly when its
\* effective tolerance is false (rule's fail_okay, else the Ruleset's, else
\* false): fail_okay = true never gives Err, and a rule-level false is fatal
\* under a Ruleset default of true.
C2_FatalIffNotTolerated ==
    Finished =>
        LET res == rr.ret[1]
            set == ruleset[1]
        IN \A i \in 1..Len(res.outcomes) :
              rr.statuses[i] = "failure" =>
                  /\ res.outcomes[i] = "Err" <=> ~ Tolerated(set, i)
                  /\ res.outcomes[i] = "Ok(false)" <=> Tolerated(set, i)
                  /\ set.rules[i].fail_okay = Some(TRUE) => res.outcomes[i] # "Err"
                  /\ set.rules[i].fail_okay = Some(FALSE) => res.outcomes[i] = "Err"

C2_Witness ==
    /\ Finished
    /\ ruleset[1].fail_okay = Some(TRUE)
    /\ Len(ruleset[1].rules) = 2
    /\ ruleset[1].rules[1].fail_okay = None
    /\ ruleset[1].rules[2].fail_okay = Some(FALSE)
    /\ rr.statuses = <<"failure", "failure">>
    /\ rr.ret[1].outcomes = <<"Ok(false)", "Err">>

\* C3: the rules run are a prefix of the declared list, in order and once
\* each; the prefix ends at the first Fatal rule and the run returns Err; with
\* no Fatal rule every rule is run and the run returns Ok.
C3_ExecutedIsPrefix ==
    Finished =>
        LET res == rr.ret[1]
            set == ruleset[1]
            F   == FatalRules(set, rr.statuses)
        IN /\ res.executed = [i \in 1..Len(res.executed) |-> i]
           /\ Len(res.outcomes) = Len(res.executed)
           /\ F = {} => Len(res.executed) = Len(set.rules) /\ res.ok
           /\ F # {} => Len(res.executed) = FirstOf(F) /\ ~ res.ok

C3_Witness ==
    /\ Finished
    /\ ~ rr.ret[1].ok
    /\ rr.ret[1].executed = <<1>>
    /\ Len(ruleset[1].rules) = 2

\* The Ruleset of scenarios A and B: r1 tolerated, r2 not
ScenarioRules ==
    <<[target |-> "lint", fail_okay |-> Some(TRUE)],
      [target |-> "compile", fail_okay |-> Some(FALSE)]>>

\* C4: passed is the number of rules run whose command succeeded, failed the
\* number of rules run whose command did not, the tolerated and the fatal
\* ones alike. Scenario A: r1 fails, r2 passes: Ok, 1 passed, 1 failed, 0 not
\* reached. Scenario B: both fail: Err, 2 failed, 0 not reached.
C4_CountsAndScenarios ==
    Finished =>
        LET res == rr.ret[1]
            s   == res.summary[1]
            ran == {i \in 1..Len(res.executed) : TRUE}
        IN /\ s.passed = Cardinality({i \in ran : rr.statuses[res.executed[i]] = "success"})
           /\ s.failed = Cardinality({i \in ran : rr.statuses[res.executed[i]] # "success"})
           /\ (ruleset[1].rules = ScenarioRules /\ rr.statuses = <<"failure", "success">>)
                 => res.ok /\ s.passed = 1 /\ s.failed = 1 /\ s.not_reached = 0
           /\ (ruleset[1].rules = ScenarioRules /\ rr.statuses = <<"failure", "failure">>)
                 => ~ res.ok /\ s.passed = 0 /\ s.failed = 2 /\ s.not_reached = 0

C4_Witness ==
    /\ Finished
    /\ ruleset[1].rules = ScenarioRules
    /\ rr.statuses = <<"failure", "failure">>
    /\ rr.ret[1].summary[1].failed = 2

\* C5: run_on_submit (run_on_grade) returns None exactly when the Ruleset is
\* absent or its on_submit (on_grade) flag is Some(false); otherwise it runs
\* the Ruleset and returns Some(result); the other flag plays no part.
C5_GateDecides ==
    /\ rr.op = "run_on_submit" =>
          (rr.ret = None <=> (ruleset = None \/ ruleset[1].on_submit = Some(FALSE)))
    /\ rr.op = "run_on_grade" =>
          (rr.ret = None <=> (ruleset = None \/ ruleset[1].on_grade = Some(FALSE)))
    /\ (rr.op \in {"run_on_submit", "run_on_grade"} /\ rr.ret # None) =>
          /\ Len(ruleset[1].rules) > 0 => Len(rr.ret[1].executed) > 0
          /\ rr.ret[1].summary # None

C5_Witness ==
    /\ rr.op = "run_on_submit"
    /\ rr.ret = None
    /\ ruleset # None
    /\ ruleset[1].on_submit = Some(FALSE)
    /\ ruleset[1].on_grade = Some(TRUE)
    /\ Len(ruleset[1].rules) = 2

----------------------------------------------------------------------------
(* Properties of grace, stated on what the command left in last and slots. *)

GraceCmds == {"grace", "set_grace"}

\* the grace recorded for a member on one assignment before the command ran
RecordedBefore(a, u) == unwrap_or(last.before[<<a, u>>].grace, 0)

\* the live sum of the grace recorded for a member before the command ran
SpentBefore(u) ==
    SumOver(DOMAIN catalog, [a \in DOMAIN catalog |-> RecordedBefore(a, u)])

\* a request that got as far as the budget check
ReachedBudget == last.cmd \in GraceCmds /\ last.figures # None

\* C8: with a grace total T set, a request by or for member u on assignment a
\* that got as far as the budget check is rejected, nothing being written,
\* when u's spent grace minus the grace already on a plus the requested amount
\* exceeds T, and passes the check when that figure is at most T (T = 5 with
\* 2 spent on another assignment: 4 is rejected, 3 is accepted).
C8_BudgetDecides ==
    ReachedBudget =>
        LET u      == last.target
            budget == SpentBefore(u) - RecordedBefore(last.asgn, u) + last.amount
        IN /\ budget > grace_total[1] =>
                 ~ last.ok /\ last.log = <<"NotEnoughGrace">> /\ slots = last.before
           /\ budget <= grace_total[1] =>
                 last.ok /\ slots[<<last.asgn, u>>].grace = Some(last.amount)

\* C9: the spent figure of the budget check is the live sum of the grace
\* recorded across the slots of the member the request is for, and the current
\* figure is what that member's slot for the assignment holds, also when the
\* instructor sets the grace of another member.
C9_SpentIsOfTarget ==
    ReachedBudget =>
        /\ last.figures[1].spent = SpentBefore(last.target)
        /\ last.figures[1].current = RecordedBefore(last.asgn, last.target)

\* the one slot a grace command may write
Written == [last.before EXCEPT ![<<last.asgn, last.target>>].grace = Some(last.amount)]

\* C10: a rejected grace request leaves every recorded grace as it was and
\* names its reason: NoGrace when no total is set, whatever the amount,
\* GraceLimit when a total and a limit are set and the amount exceeds the
\* limit, NotEnoughGrace only from the budget check; the slot is written only
\* by a request that passed every check, and then only that slot changes.
C10_RejectedWritesNothing ==
    last.cmd \in GraceCmds =>
        /\ ~ last.ok => slots = last.before /\ Len(last.log) = 1
        /\ grace_total = None => ~ last.ok /\ last.log = <<"NoGrace">>
        /\ (grace_total # None /\ grace_limit # None /\ last.amount > grace_limit[1]) =>
              ~ last.ok /\ last.log = <<"GraceLimit">>
        /\ last.log = <<"NotEnoughGrace">> =>
              /\ grace_total # None
              /\ grace_limit # None => last.amount <= grace_limit[1]
              /\ last.figures # None
              /\ grace_total[1] < last.figures[1].spent - last.figures[1].current + last.amount
        /\ last.ok =>
              /\ grace_total # None
              /\ grace_limit # None => last.amount <= grace_limit[1]
              /\ last.asgn \in DOMAIN catalog /\ catalog[last.asgn].active
              /\ last.figures # None
              /\ grace_total[1] >= last.figures[1].spent - last.figures[1].current + last.amount
              /\ slots = Written

\* a request over the budget was turned down after grace had been recorded
C10_Witness ==
    /\ last.cmd \in GraceCmds
    /\ last.log = <<"NotEnoughGrace">>
    /\ \E k \in DOMAIN last.before : last.before[k].grace # None
    /\ slots = last.before

----------------------------------------------------------------------------
(* Properties of versus, stated on the row that list_subs printed.         *)

\* list_subs printed a row for the slot of last.target
Row == last.cmd = "list_subs" /\ last.outcome = "Ok"

TheSlot == slots[<<last.asgn, last.target>>]

TheDue == catalog[last.asgn].due_date

\* every required path of the slot is a plain file
AllPlain(slot) == \A f \in Files : slot.files[f] # None /\ f \notin slot.dirs

\* the latest modification time over the required files
LatestMTime(slot) ==
    CHOOSE m \in {slot.files[f][1] : f \in Files} :
        \A f \in Files : slot.files[f][1] <= m

Abs(x) == IF x >= 0 THEN x ELSE -x

\* a row for a submitted slot of an assignment with a due date
Judged == Row /\ AllPlain(TheSlot) /\ TheDue # None

\* C13: for a submitted status and a due date, with D = turn_in_time -
\* due_date, versus says Late when D > 0 and Early when D <= 0, with days,
\* hours and minutes that are never negative, hours below 24, minutes below
\* 60, and days*1440 + hours*60 + minutes equal to |D| in whole minutes.
C13_LatenessDecomposes ==
    Judged =>
        LET delta == LatestMTime(TheSlot) - TheDue[1]
            l     == last.rows[1].lateness
        IN /\ delta > 0 => l.text = "Late"
           /\ delta <= 0 => l.text = "Early"
           /\ l.days >= 0 /\ l.hours >= 0 /\ l.mins >= 0
           /\ l.hours < 24 /\ l.mins < 60
           /\ l.days * 1440 + l.hours * 60 + l.mins = Abs(delta) \div 60

\* a late row whose three components are all positive
C13_Witness ==
    /\ Judged
    /\ last.rows[1].lateness.text = "Late"
    /\ last.rows[1].lateness.days > 0
    /\ last.rows[1].lateness.hours > 0
    /\ last.rows[1].lateness.mins > 0

\* C14: for two distinct timestamps a and b, versus of turn_in_time a against
\* due date b and versus of turn_in_time b against due date a give one Late
\* and one Early verdict with the same days, hours and minutes.
C14_VersusAntisymmetric ==
    (Judged /\ LatestMTime(TheSlot) # TheDue[1]) =>
        LET l == last.rows[1].lateness
            r == versus(TheDue, Some(LatestMTime(TheSlot)), last.clock)
        IN /\ {l.text, r.text} = {"Late", "Early"}
           /\ l.days = r.days /\ l.hours = r.hours /\ l.mins = r.mins

\* an early row that is not a whole number of minutes early
C14_Witness ==
    /\ Judged
    /\ last.rows[1].lateness.text = "Early"
    /\ (TheDue[1] - LatestMTime(TheSlot)) % 60 # 0
    /\ last.rows[1].lateness.hours > 0

\* the clock of the command is past the due date
PastDue == last.clock.secs > TheDue[1] \/ (last.clock.secs = TheDue[1] /\ last.clock.frac)

\* C15: when turn_in_time is None versus never says Late or Early: with a
\* due date it says Not Submitted if now <= due_date and Missing if now >
\* due_date; without a due date it says Not Submitted, and Submitted when a
\* turn_in_time is present.
C15_UnsubmittedVerdicts ==
    Row =>
        LET text == last.rows[1].lateness.text
        IN /\ ~ AllPlain(TheSlot) =>
                /\ text \notin {"Late", "Early"}
                /\ TheDue = None => text = "Not Submitted"
                /\ (TheDue # None /\ ~ PastDue) => text = "Not Submitted"
                /\ (TheDue # None /\ PastDue) => text = "Missing"
           /\ (AllPlain(TheSlot) /\ TheDue = None) => text = "Submitted"

----------------------------------------------------------------------------
(* Properties of offset_date.                                              *)

\* the wall-clock time bump calendar days after that of the due date
ShiftedWallClock == naive_local(last.date[1]) + last.offset * 86400

\* a wall-clock time of the calendar that some instant shows
Representable(n) ==
    /\ 0 <= n /\ n < (LastDay + 1) * 86400
    /\ \E t \in {n, n - 3600} : t + utc_offset(t) = n

\* C16: offset_date(due_date, bump) returns the due date moved by exactly
\* bump calendar days with the same wall-clock time, for a positive, zero or
\* negative bump; it returns an error, never a clamped date, if the shifted
\* date is not representable; without a due date it returns no date.
C16_ShiftsByCalendarDays ==
    last.cmd = "offset_date" =>
        IF last.date = None THEN last.ret = Ok(None)
        ELSE IF Representable(ShiftedWallClock)
        THEN /\ last.ret.ok
             /\ last.ret.val # None
             /\ naive_local(last.ret.val[1]) = ShiftedWallClock
        ELSE ~ last.ret.ok

----------------------------------------------------------------------------
(* Properties of status and of the commands that call it.                  *)

\* .extension is a file that someone other than the instructor made
Forged(slot) ==
    /\ slot.extension # None
    /\ slot.extension[1].kind = "file"
    /\ slot.extension[1].owner # Instructor

\* the last command called status() on a slot with a forged .extension
ConsultedForged ==
    \/ /\ last.cmd = "summary"
       /\ \E a \in DOMAIN catalog : catalog[a].visible /\ Forged(slots[<<a, last.target>>])
    \/ /\ last.cmd = "details"
       /\ last.asgn \in DOMAIN catalog
       /\ catalog[last.asgn].visible
       /\ Forged(slots[<<last.asgn, last.target>>])
    \/ /\ last.cmd = "list_subs"
       /\ last.asgn \in DOMAIN catalog
       /\ InSeq(last.target, members(course))
       /\ Forged(slots[<<last.asgn, last.target>>])

\* C11: status() of a slot whose .extension is a file not owned by the
\* instructor returns an error, neither 0 nor the value in the file, and a
\* command that called it fails and prints no row: the error is not dropped.
C11_ForgedExtensionFails ==
    /\ (last.cmd = "status" /\ Forged(slots[<<last.asgn, last.target>>])) => ~ last.ret.ok
    /\ ConsultedForged => last.outcome # "Ok" /\ ~ last.ok /\ last.rows = <<>>

\* summary ended in the panic of status().unwrap() over a forged extension
\* that holds a value
C11_Witness ==
    /\ last.cmd = "summary"
    /\ ConsultedForged
    /\ slots[<<"hw1", last.target>>].extension[1].value # None
    /\ last.outcome = "panic"

\* C12: status() reports a turn_in_time if and only if every path of
\* file_list is a plain file of the slot, and then turn_in_time is the
\* latest modification time over the required files.
C12_TurnInIsLatestMTime ==
    (last.cmd = "status" /\ last.ret.ok) =>
        LET slot == slots[<<last.asgn, last.target>>]
        IN /\ last.ret.val.turn_in_time # None <=> AllPlain(slot)
           /\ AllPlain(slot) => last.ret.val.turn_in_time = Some(LatestMTime(slot))

----------------------------------------------------------------------------
(* Properties of the metric run.                                           *)

MetricRun == rr.op = "run_metrics"

\* the texts that are a value of each kind
Parseable(kind, text) ==
    <<kind, text>> \in {<<"bool", "true">>, <<"bool", "false">>, <<"int", "7">>, <<"float", "7">>}

\* rule i passed and left a file that holds a value of its kind
Measured(i) ==
    /\ rr.statuses[i] = "success"
    /\ rr.outputs[i] # None
    /\ ruleset[1].rules[i].kind # None
    /\ Parseable(ruleset[1].rules[i].kind[1], rr.outputs[i][1])

\* C17: in a metric run a passing rule whose file cannot be read or parsed
\* as its kind, or whose kind is absent, adds no entry to the returned
\* metrics: every entry comes from a rule that ran, passed and left a value
\* of its kind; the counters are those of the exit statuses alone, and the
\* result is Err only if a rule was Fatal.
C17_BadMetricIsOmitted ==
    MetricRun =>
        LET res == rr.ret[1]
            s   == res.summary[1]
            ran == {res.executed[k] : k \in 1..Len(res.executed)}
        IN /\ \A t \in Targets :
                 res.scores[t] # None <=>
                     \E i \in ran : ruleset[1].rules[i].target = t /\ Measured(i)
           /\ s.passed = Cardinality({i \in ran : rr.statuses[i] = "success"})
           /\ s.failed = Cardinality({i \in ran : rr.statuses[i] # "success"})
           /\ res.ok <=> ~ \E i \in ran : FatalRule(ruleset[1], rr.statuses, i)

\* a run that is Ok, with one metric recorded and one passing rule whose
\* file does not parse
C17_Witness ==
    /\ MetricRun
    /\ rr.ret[1].ok
    /\ \E t \in Targets : rr.ret[1].scores[t] # None
    /\ \E i \in 1..Len(rr.statuses) :
          /\ rr.statuses[i] = "success"
          /\ rr.outputs[i] = Some("abc")
          /\ ruleset[1].rules[i].kind = Some("int")
          /\ rr.ret[1].scores[ruleset[1].rules[i].target] = None

----------------------------------------------------------------------------
(* Properties of rank, stated on the table the command printed.            *)

\* the rules of the score Ruleset of the ranked assignment
RankRules == catalog[last.asgn].score[1].rules

\* the column of the metric the table is ordered by
SortColumn == CHOOSE i \in 1..Len(RankRules) :
                 /\ RankRules[i].target = last.score
                 /\ \A j \in 1..Len(RankRules) : RankRules[j].target = last.score => i <= j

\* rank got as far as rank_specialized
Specialized ==
    /\ last.cmd = "rank"
    /\ last.asgn \in DOMAIN catalog
    /\ catalog[last.asgn].score # None
    /\ \E i \in 1..Len(RankRules) : RankRules[i].target = last.score
    /\ RankRules[SortColumn].kind \in {Some("bool"), Some("int"), Some("float")}

\* rank printed a table
Ranked == Specialized /\ last.ret.ok

\* the rows of the table under the header
DataRows == Tail(last.ret.val)

\* every order of the course member list
MemberOrders ==
    LET mems == members(course)
    IN {[i \in 1..Len(mems) |-> mems[f[i]]] :
           f \in {g \in [1..Len(mems) -> 1..Len(mems)] :
                     \A a, b \in 1..Len(mems) : g[a] = g[b] => a = b}}

\* C18: for the same stored stat blocks, metric and direction, every
\* permutation of the course member list gives the same table, row by row.
C18_MemberOrderIrrelevant ==
    Ranked =>
        \A mems \in MemberOrders :
            rank_specialized(score_toml[last.asgn], RankRules, last.score, last.up,
                             mems, RankRules[SortColumn].kind[1]) = last.ret

\* the sort key shown in a row of the table: None where the value is missing
KeyOf(row) ==
    IF row[SortColumn + 1] = "None" THEN None
    ELSE from_str(RankRules[SortColumn].kind[1], row[SortColumn + 1])

\* the place of the member of a row in the course member list
PlaceOf(row) == CHOOSE i \in 1..Len(members(course)) : members(course)[i] = row[1]

\* C19: in the table, two rows with a value are in the order of their
\* values, ascending or descending as asked; a row with a value is above
\* every row without one in both directions; rows that tie (equal values,
\* or both without a value) stay in the order of the member list.
C19_RowsOrderedByKey ==
    Ranked =>
        \A i, j \in 1..Len(DataRows) :
            i < j =>
                LET a == KeyOf(DataRows[i])
                    b == KeyOf(DataRows[j])
                IN /\ ~ (a = None /\ b # None)
                   /\ (a # None /\ b # None) =>
                          IF last.up THEN a[1] <= b[1] ELSE a[1] >= b[1]
                   /\ (a = b) => PlaceOf(DataRows[i]) < PlaceOf(DataRows[j])

\* a descending table of three rows: 10 above 2 above a row without a value
C19_Witness ==
    /\ Ranked
    /\ ~ last.up
    /\ Len(DataRows) = 3
    /\ KeyOf(DataRows[1]) = Some(10)
    /\ KeyOf(DataRows[2]) = Some(2)
    /\ KeyOf(DataRows[3]) = None
    /\ PlaceOf(DataRows[3]) < PlaceOf(DataRows[1])

\* what the cell of a member under a rule has to show
CellOf(member, rule) ==
    LET block == get_block(score_toml[last.asgn][1], member)
    IN IF block = None THEN "NONE"
       ELSE IF block[1].scores[rule.target] = None THEN "NONE"
       ELSE to_string(block[1].scores[rule.target][1])

\* C20: the table has exactly one row per course member, holding the member
\* name and one column per rule of the score Ruleset; a value that is
\* missing, for want of a stat block or of the metric, shows as "NONE".
C20_OneRowPerMember ==
    Ranked =>
        /\ Len(DataRows) = Len(members(course))
        /\ \A m \in 1..Len(members(course)) :
              \E r \in 1..Len(DataRows) :
                  /\ Len(DataRows[r]) = 1 + Len(RankRules)
                  /\ DataRows[r][1] = members(course)[m]
                  /\ \A c \in 1..Len(RankRules) :
                        DataRows[r][c + 1] = CellOf(members(course)[m], RankRules[c])

----------------------------------------------------------------------------
(* Properties of update_scores, stated on what the refresh left in last    *)
(* and in score.toml.                                                      *)

\* a refresh that ran to its end and rewrote score.toml
Refreshed == last.cmd = "update_scores" /\ last.outcome = "Ok"

\* the live turn_in_time of a member for the refreshed assignment
LiveTime(u) == status(slots[<<last.asgn, u>>], catalog[last.asgn]).val.turn_in_time

\* the block the member had before the refresh
OldBlock(u) == get_block(last.old_stats[1], u)

\* the blocks of the member in the rewritten score.toml
NewBlocks(u) ==
    {i \in 1..Len(score_toml[last.asgn][1]) : score_toml[last.asgn][1][i].user = u}

\* C21: in a refresh, the cached StatBlock of a member who has a submission
\* is reused verbatim if and only if its recorded time is within 1 second
\* of the live turn_in_time, in either direction; otherwise it is rebuilt.
C21_CacheWithinOneSecond ==
    Refreshed =>
        \A i \in 1..Len(last.results) :
            LET u == members(course)[i]
            IN (LiveTime(u) # None /\ OldBlock(u) # None) =>
                   IF Abs(LiveTime(u)[1] - date_into_chrono(OldBlock(u)[1].time).val) <= 1
                   THEN last.results[i].how = "cached" /\ last.results[i].block = OldBlock(u)
                   ELSE last.results[i].how = "rebuilt"

\* C22: after a refresh the rewritten StatBlockSet has no block of a member
\* who has no submission, whatever the previous file held for that member.
C22_NoBlockWithoutSubmission ==
    Refreshed =>
        \A i \in 1..Len(members(course)) :
            LiveTime(members(course)[i]) = None => NewBlocks(members(course)[i]) = {}

\* a refresh that kept the block of one member and dropped the block that
\* the previous file held for a member without a submission
C22_Witness ==
    /\ Refreshed
    /\ \E i \in 1..Len(members(course)) :
          /\ LiveTime(members(course)[i]) = None
          /\ OldBlock(members(course)[i]) # None
    /\ score_toml[last.asgn][1] # <<>>

\* C23: when the block of a member is rebuilt, Build runs first and Score
\* after it whatever Build returned, neither of them gated by on_submit or
\* on_grade, and a fresh block with the live turn_in_time is recorded
\* whatever Score returned, with no scores when the Score run is fatal.
C23_RebuildRunsBuildThenScore ==
    Refreshed =>
        \A i \in 1..Len(last.results) :
            LET res == last.results[i]
                u   == members(course)[i]
            IN res.how = "rebuilt" =>
                 /\ Len(res.stages) = 2
                 /\ res.stages[1].stage = "build"
                 /\ res.stages[2].stage = "score"
                 /\ catalog[last.asgn].build # None => res.stages[1].ret.executed # <<>>
                 /\ catalog[last.asgn].score # None => res.stages[2].ret.executed # <<>>
                 /\ res.block # None
                 /\ res.block[1].user = u
                 /\ res.block[1].time = date_from_chrono(LiveTime(u)[1])
                 /\ res.block[1].scores = IF res.stages[2].ret.ok THEN res.stages[2].ret.scores
                                          ELSE [t \in Targets |-> None]
                 /\ \E k \in NewBlocks(u) : score_toml[last.asgn][1][k] = res.block[1]

\* a rebuild whose gated-off Build and Score were both fatal
C23_Witness ==
    /\ Refreshed
    /\ catalog[last.asgn].build # None
    /\ catalog[last.asgn].build[1].on_submit = Some(FALSE)
    /\ catalog[last.asgn].score # None
    /\ catalog[last.asgn].score[1].on_grade = Some(FALSE)
    /\ \E i \in 1..Len(last.results) :
          /\ last.results[i].how = "rebuilt"
          /\ ~ last.results[i].stages[1].ret.ok
          /\ ~ last.results[i].stages[2].ret.ok
          /\ last.results[i].block # None

\* C30: after update_scores the rewritten StatBlockSet holds at most one
\* block per username, whatever the membership, a user listed in more than
\* one of instructor, graders and students included.
C30_OneBlockPerUser ==
    Refreshed => \A u \in Users : Cardinality(NewBlocks(u)) <= 1

----------------------------------------------------------------------------
(* Properties of load and sync.                                            *)

\* the info.toml of the directory n holds a name field other than n
NameDiffers(n) == info_toml[n] # None /\ info_toml[n][1].name # n

\* the commands of this development that are addressed to an assignment
AsgnCommands == {"set_due", "publish", "unpublish", "enable", "disable", "rank"}

\* C24: a spec whose name field differs from the name of its directory is
\* not loaded: the catalog holds the error of load for it, and a command
\* addressed to it fails, runs no rule and writes no file.
C24_MisnamedSpecUnusable ==
    [][\A n \in DOMAIN info_toml :
          NameDiffers(n) =>
              /\ ~ is_ok(catalog[n])
              /\ (last'.cmd \in AsgnCommands /\ last'.asgn = n) =>
                     /\ ~ last'.ok
                     /\ last'.stages = <<>>
                     /\ info_toml' = info_toml
                     /\ slots' = slots
                     /\ score_toml' = score_toml]_vars

\* the fields of a spec that a save and a load have to keep
Kept(spec) == <<spec.name, spec.active, spec.visible, spec.file_list, spec.due_date>>

\* C25: a spec that was saved (sync) and is loaded again has the same name,
\* active, visible, file_list and due_date, the due date being the same
\* instant after its way through the TOML date; and a due date that
\* info.toml holds without a time of day is loaded as 23:59:59 of its day.
C25_SaveLoadRoundTrip ==
    /\ last.cmd = "deduce" =>
          \A n \in DOMAIN last.saved :
              is_ok(last.saved[n]) =>
                  is_ok(catalog[n]) /\ Kept(catalog[n]) = Kept(last.saved[n])
    /\ \A n \in DOMAIN info_toml :
          (/\ info_toml[n] # None
           /\ is_ok(catalog[n])
           /\ info_toml[n][1].due_date # None
           /\ info_toml[n][1].due_date[1].time = None)
          => /\ catalog[n].due_date # None
             /\ naive_local(catalog[n].due_date[1]) =
                    info_toml[n][1].due_date[1].date[1] * 86400 + 86399

\* a spec loaded again after set_due gave it a due date in summer time
C25_Witness ==
    /\ last.cmd = "deduce"
    /\ last.after = "set_due"
    /\ is_ok(last.saved["hw1"])
    /\ last.saved["hw1"].due_date # None
    /\ utc_offset(last.saved["hw1"].due_date[1]) # 0
    /\ catalog["hw1"].due_date = last.saved["hw1"].due_date

----------------------------------------------------------------------------
(* Properties of a run of grace requests of one student.                   *)

\* The grace recorded for the student, over all assignments
Recorded(a) == get_grace(slots[<<a, "stu">>])

TotalRecorded == Recorded("hw1") + Recorded("hw2")

\* C27: with grace_total fixed at T and the student's recorded grace at most T
\* at the start, after any run of grace requests of the student, accepted or
\* rejected, on any assignments, the sum of the student's recorded grace over
\* all assignments is at most T.
C27_TotalWithinBudget == TotalRecorded <= grace_total[1]

\* C28: after any run of grace requests every recorded grace value g of every
\* assignment has 0 <= g <= grace_total: a negative amount is never written
\* and no assignment holds more than the total of the course.
C28_EachWithinBudget ==
    \A a \in DOMAIN catalog :
        slots[<<a, "stu">>].grace # None =>
            /\ 0 <= slots[<<a, "stu">>].grace[1]
            /\ slots[<<a, "stu">>].grace[1] <= grace_total[1]

----------------------------------------------------------------------------
(* Properties of a submit that finds a required file missing.              *)

\* The last command was a submit that failed over a required file that is
\* missing from the working directory or is a directory there
FailedOverFile(l) ==
    /\ l.cmd = "submit"
    /\ ~ l.ok
    /\ \E i \in 1..Len(l.log) : l.log[i] \in {"MissingFile", "FileIsDir"}

\* C29: a submit that fails because a required file is missing from the
\* working directory, or is a directory there, leaves the submission as it
\* was: no file of the slot is overwritten, status() reports the
\* turn_in_time it reported before, and no rule of any Ruleset is run.
C29_FailedSubmitTouchesNothing ==
    [][FailedOverFile(last') =>
          /\ slots' = slots
          /\ status(slots[<<"hw1", user>>], catalog["hw1"])' =
                status(slots[<<"hw1", user>>], catalog["hw1"])
          /\ last'.stages = <<>>]_vars

====
